---- MODULE Spec2Model ----
(***************************************************************************)
(* Model of the Modbus polling agent: the per-device poll scheduler of     *)
(* src/index.js, the configuration poller and diff engine of               *)
(* src/servicios/restService.js, the connection-test coordinator and the   *)
(* Modbus client of src/modbus/clienteModbus.js.                           *)
(***************************************************************************)
EXTENDS Integers, Sequences, FiniteSets, Bags, TLC

\* ------------------------------------------------------------------------
\* Input domains and bounds
\* ------------------------------------------------------------------------

\* Device ids known to the backend (opaque identifiers), in the order the
\* backend lists them.
Orden == <<"r1", "r2">>

Ids == {Orden[k] : k \in 1..Len(Orden)}

\* Values of intervaloSegundos the backend may hold.
Intervalos == {30, 60}

\* Values of nombre the backend may hold.
Nombres == {"A", "B"}

\* Reads of one device that may be in flight at once.
MaxEnVuelo == 2

\* HTTP fetches of /agente/config that may be in flight at once.
MaxSolicitudes == 2

\* Live setInterval timers of one device (the one in the map plus leaked ones).
MaxTimers == 2

\* The bounds of a full session.
CotasSesion == [sol |-> MaxSolicitudes, vuelo |-> MaxEnVuelo, timers |-> MaxTimers]

\* The same for the start of a session (first fetches, no manual reload).
MaxEnVueloArranque == 1

MaxSolicitudesArranque == 2

CotasArranque ==
  [sol |-> MaxSolicitudesArranque, vuelo |-> MaxEnVueloArranque, timers |-> MaxTimers]

\* The same for a session whose authentication may fail.
MaxEnVueloAuth == 1

MaxSolicitudesAuth == 1

MaxTimersAuth == 1

CotasAuth ==
  [sol |-> MaxSolicitudesAuth, vuelo |-> MaxEnVueloAuth, timers |-> MaxTimersAuth]

\* ------------------------------------------------------------------------
\* Data
\* ------------------------------------------------------------------------

\* A device that is not in a snapshot.
Ausente == [presente |-> FALSE, activo |-> FALSE, intervalo |-> 0, nombre |-> ""]

RegsPresentes ==
  [presente : {TRUE}, activo : BOOLEAN, intervalo : Intervalos, nombre : Nombres]

\* A registry snapshot: for every id, its record or Ausente.
Snapshots == [Ids -> RegsPresentes \cup {Ausente}]

Vacio == [i \in Ids |-> Ausente]

IdsDe(s) == {i \in Ids : s[i].presente}

Activos(s) == {i \in Ids : s[i].presente /\ s[i].activo}

\* reg.intervalo_segundos || 60
IntervaloDefecto == 60

IntervaloEfectivo(r) == IF r.intervalo = 0 THEN IntervaloDefecto ELSE r.intervalo

\* contadoresProxLectura / proximaLectura without a value.
SinValor == -1

\* A row of the UI table (estado.registradores) that does not exist.
UiAusente == [presente |-> FALSE, estado |-> "", proximaLectura |-> SinValor]

VARIABLES
  \* backend
  backend,                  \* the registry the backend would answer now
  \* src/index.js
  registradoresCache,
  cicloActivo,
  intervalosLectura,        \* id -> handle of the timer in the map, 0 = no entry
  contadoresProxLectura,    \* id -> seconds, SinValor = no entry
  contadorIntervalId,       \* TRUE when the shared ticker runs
  tickers,                  \* ticker intervals created and not cleared
  timers,                   \* the live setInterval timers
  enVuelo,                  \* id -> reads of the device in flight
  \* src/ui/webServer.js
  ui,                       \* estado.registradores
  \* src/servicios/restService.js
  token,
  configPollIntervalId,
  ultimaConfigHash,
  ultimosRegistradoresIds,
  ultimosRegistradoresActivos,
  conexion,                 \* the call of iniciarConexion and what it started
  solicitudes,              \* fetches of /agente/config in flight
  \* observation
  detenido,                 \* id -> its timer was stopped by a granular update
  ultimoPoll,               \* what the last processed config fetch did
  huboFetch,                \* a config fetch of the session has succeeded
  salio,                    \* the shutdown handler has run
  \* src/index.js: connection tests
  testsEnProceso,
  ejecuciones,              \* executions of ejecutarTestConexion in progress
  entregas,                 \* test id -> times it was delivered
  invocaciones,             \* test id -> calls of testConexionModbus for it
  terminadas,               \* summaries of the finished executions
  tokenTest,                \* restService's token, as reportarResultadoTest sees it
  \* src/modbus/clienteModbus.js: one invocation of an executor
  modoModbus,               \* MODO_MODBUS
  mbPc,
  mbArgs,
  clienteCreado,            \* new ModbusRTU() was executed
  conexionAbierta,
  intentosConexion,         \* calls of connectTCP in this invocation
  cierres,                  \* calls of cliente.close() in this invocation
  mbResultado,
  \* the clock of the timers
  reloj,                    \* seconds since the polling was started
  vence,                    \* id -> seconds until its timer fires, SinValor = none
  ticPendiente,             \* the shared ticker is due in this second
  lecturas,                 \* id -> reads of the device started so far
  \* src/index.js: one call of leerRegistrador
  lecPc,
  lecValores,               \* leerRegistrosModbus returned values
  lecInformes,              \* the calls of enviarLecturas of this read
  lecEstado,                \* estado of the row of the device
  lecRetorno,               \* what the last call resolved with
  \* src/ui/webServer.js
  estadisticasPorRegistrador,  \* the counters of the device that is read
  lecCompletadas            \* calls of leerRegistrador that have resolved

agVars == <<registradoresCache, cicloActivo, intervalosLectura,
            contadoresProxLectura, contadorIntervalId, tickers, timers,
            enVuelo, ui, detenido>>

restVars == <<token, configPollIntervalId, ultimaConfigHash,
              ultimosRegistradoresIds, ultimosRegistradoresActivos, conexion>>

testVars == <<testsEnProceso, ejecuciones, entregas, invocaciones, terminadas,
              tokenTest>>

mbVars == <<modoModbus, mbPc, mbArgs, clienteCreado, conexionAbierta,
            intentosConexion, cierres, mbResultado>>

sesionVars == <<backend, agVars, restVars, solicitudes,
                ultimoPoll, huboFetch, salio>>

relojVars == <<reloj, vence, ticPendiente, lecturas>>

lecVars == <<lecPc, lecValores, lecInformes, lecEstado, lecRetorno,
             estadisticasPorRegistrador, lecCompletadas>>

\* ------------------------------------------------------------------------
\* src/index.js: the scheduler, as functions of the agent's state
\* ------------------------------------------------------------------------

\* The module-level state of index.js and the UI table, as one record.
AgActual ==
  [cache |-> registradoresCache, ciclo |-> cicloActivo,
   intervalos |-> intervalosLectura, contadores |-> contadoresProxLectura,
   contadorId |-> contadorIntervalId, tickers |-> tickers, timers |-> timers,
   enVuelo |-> enVuelo,
   ui |-> ui, detenido |-> detenido]

AgAsignar(a) ==
  /\ registradoresCache' = a.cache
  /\ cicloActivo' = a.ciclo
  /\ intervalosLectura' = a.intervalos
  /\ contadoresProxLectura' = a.contadores
  /\ contadorIntervalId' = a.contadorId
  /\ tickers' = a.tickers
  /\ timers' = a.timers
  /\ enVuelo' = a.enVuelo
  /\ ui' = a.ui
  /\ detenido' = a.detenido

\* The agent's variables hold the state a.
AgPoner(a) ==
  /\ registradoresCache = a.cache
  /\ cicloActivo = a.ciclo
  /\ intervalosLectura = a.intervalos
  /\ contadoresProxLectura = a.contadores
  /\ contadorIntervalId = a.contadorId
  /\ tickers = a.tickers
  /\ timers = a.timers
  /\ enVuelo = a.enVuelo
  /\ ui = a.ui
  /\ detenido = a.detenido

AgInicial ==
  [cache |-> Vacio, ciclo |-> FALSE,
   intervalos |-> [i \in Ids |-> 0], contadores |-> [i \in Ids |-> SinValor],
   contadorId |-> FALSE, tickers |-> 0, timers |-> {},
   enVuelo |-> [i \in Ids |-> 0],
   ui |-> [i \in Ids |-> UiAusente], detenido |-> [i \in Ids |-> FALSE]]

\* terminal.actualizarRegistrador(id, datos): only an existing row changes.
ActualizarEstado(u, id, est) ==
  IF u[id].presente THEN [u EXCEPT ![id].estado = est] ELSE u

ActualizarProxima(u, id, seg) ==
  IF u[id].presente THEN [u EXCEPT ![id].proximaLectura = seg] ELSE u

\* terminal.setRegistradores(registradores): the table is rebuilt.
SetRegistradores(cache) ==
  [i \in Ids |->
     IF cache[i].presente
       THEN [presente |-> TRUE,
             estado |-> IF cache[i].activo THEN "espera" ELSE "inactivo",
             proximaLectura |-> SinValor]
       ELSE UiAusente]

\* leerRegistrador(reg) up to its first await: the row shows 'leyendo' and
\* the Modbus read is in flight.
LeerRegistradorInicio(a, id) ==
  [a EXCEPT !.ui = ActualizarEstado(a.ui, id, "leyendo"),
            !.enVuelo[id] = a.enVuelo[id] + 1]

\* The smallest handle no live timer of the device uses.
NuevoHandle(a, id) ==
  CHOOSE h \in 1..(Cardinality(a.timers) + 1) :
    /\ \A t \in a.timers : t.id = id => t.h # h
    /\ \A k \in 1..(h - 1) : \E t \in a.timers : t.id = id /\ t.h = k

TimersDe(a, id) == {t \in a.timers : t.id = id}

\* asegurarContadorGlobal(): starts the ticker unless it runs.
AsegurarContadorGlobalSinGuarda(a) ==
  [a EXCEPT !.contadorId = TRUE, !.tickers = a.tickers + 1]

AsegurarContadorGlobal(a) ==
  IF a.contadorId THEN a
  ELSE [a EXCEPT !.contadorId = TRUE, !.tickers = a.tickers + 1]

\* iniciarPollingRegistrador(reg)
IniciarPollingRegistrador(a, id, reg) ==
  IF ~reg.activo THEN a
  ELSE
    LET h  == NuevoHandle(a, id)
        a1 == AsegurarContadorGlobal([a EXCEPT !.ciclo = TRUE])
        a2 == [a1 EXCEPT !.contadores[id] = IntervaloEfectivo(reg),
                         !.ui = ActualizarProxima(a1.ui, id, IntervaloEfectivo(reg))]
        a3 == LeerRegistradorInicio(a2, id)
    IN [a3 EXCEPT
          !.timers = a3.timers \cup
                       {[id |-> id, h |-> h, tipo |-> "registrador", reg |-> reg]},
          !.intervalos[id] = h,
          !.detenido[id] = FALSE]

\* detenerPollingRegistrador(regId)
DetenerPollingRegistrador(a, id) ==
  IF a.intervalos[id] = 0 THEN a
  ELSE [a EXCEPT
          !.timers = {t \in a.timers : ~(t.id = id /\ t.h = a.intervalos[id])},
          !.intervalos[id] = 0,
          !.contadores[id] = SinValor,
          !.detenido[id] = TRUE]

\* The order in which a loop visits a set of devices: the order of the
\* array the backend returned.
EnOrden(S) == SelectSeq(Orden, LAMBDA x : x \in S)

\* actualizarRegistradoresGranular, loop 1: removed devices stop polling.
DetenerEliminadosOmitido(a, nuevos, orden) == a

RECURSIVE DetenerEliminados(_, _, _)
DetenerEliminados(a, nuevos, orden) ==
  IF orden = <<>> THEN a
  ELSE LET id == Head(orden)
           a1 == IF ~nuevos[id].presente
                   THEN DetenerPollingRegistrador(a, id) ELSE a
       IN DetenerEliminados(a1, nuevos, Tail(orden))

\* actualizarRegistradoresGranular, loop 2: new devices start polling when
\* active. idsActuales is the id set of the cache before the update.
RECURSIVE IniciarNuevosSinComparar(_, _, _, _)
IniciarNuevosSinComparar(a, nuevos, idsActuales, orden) ==
  IF orden = <<>> THEN a
  ELSE LET id == Head(orden)
           a1 == IF nuevos[id].activo
                   THEN IniciarPollingRegistrador(a, id, nuevos[id]) ELSE a
       IN IniciarNuevosSinComparar(a1, nuevos, idsActuales, Tail(orden))

RECURSIVE IniciarNuevos(_, _, _, _)
IniciarNuevos(a, nuevos, idsActuales, orden) ==
  IF orden = <<>> THEN a
  ELSE LET id == Head(orden)
           a1 == IF id \notin idsActuales /\ nuevos[id].activo
                   THEN IniciarPollingRegistrador(a, id, nuevos[id]) ELSE a
       IN IniciarNuevos(a1, nuevos, idsActuales, Tail(orden))

\* actualizarRegistradoresGranular, loop 3: changes of the active flag.
RECURSIVE AplicarCambiosActivo(_, _, _)
AplicarCambiosActivo(a, nuevos, orden) ==
  IF orden = <<>> THEN a
  ELSE LET id == Head(orden)
           regActual == a.cache[id]
           regNuevo  == nuevos[id]
           a1 == IF ~regActual.presente THEN a
                 ELSE IF regActual.activo /\ ~regNuevo.activo
                   THEN LET d == DetenerPollingRegistrador(a, id)
                        IN [d EXCEPT !.ui = ActualizarEstado(d.ui, id, "inactivo")]
                 ELSE IF ~regActual.activo /\ regNuevo.activo
                   THEN IniciarPollingRegistrador(a, id, regNuevo)
                 ELSE a
       IN AplicarCambiosActivo(a1, nuevos, Tail(orden))

\* actualizarRegistradoresGranular(registradoresNuevos)
ActualizarRegistradoresGranular(a, nuevos) ==
  LET a1 == DetenerEliminados(a, nuevos, EnOrden(IdsDe(a.cache)))
      a2 == IniciarNuevos(a1, nuevos, IdsDe(a.cache), EnOrden(IdsDe(nuevos)))
      a3 == AplicarCambiosActivo(a2, nuevos, EnOrden(IdsDe(nuevos)))
  IN [a3 EXCEPT !.cache = nuevos, !.ui = SetRegistradores(nuevos)]

\* iniciarPolling(), the forEach over the active devices: countdown, first
\* read at once, and a timer that captures reg.
RECURSIVE CrearTimersIniciales(_, _)
CrearTimersIniciales(a, orden) ==
  IF orden = <<>> THEN a
  ELSE LET id  == Head(orden)
           reg == a.cache[id]
           h   == NuevoHandle(a, id)
           a1  == [a EXCEPT !.contadores[id] = IntervaloEfectivo(reg),
                            !.ui = ActualizarProxima(a.ui, id, IntervaloEfectivo(reg))]
           a2  == LeerRegistradorInicio(a1, id)
           a3  == [a2 EXCEPT
                     !.timers = a2.timers \cup
                                  {[id |-> id, h |-> h, tipo |-> "inicial", reg |-> reg]},
                     !.intervalos[id] = h,
                     !.detenido[id] = FALSE]
       IN CrearTimersIniciales(a3, Tail(orden))

\* iniciarPolling()
IniciarPolling(a) ==
  IF a.ciclo THEN a
  ELSE IF IdsDe(a.cache) = {} THEN a
  ELSE LET a1 == [a EXCEPT !.ciclo = TRUE]
       IN IF Activos(a1.cache) = {} THEN a1
          ELSE AsegurarContadorGlobal(
                 CrearTimersIniciales(a1, EnOrden(Activos(a1.cache))))

\* detenerPolling(): the timers of the map are cleared, the maps emptied and
\* the ticker stopped.
DetenerPolling(a) ==
  [a EXCEPT !.ciclo = FALSE,
            !.timers = {t \in a.timers : a.intervalos[t.id] # t.h},
            !.intervalos = [i \in Ids |-> 0],
            !.contadores = [i \in Ids |-> SinValor],
            !.contadorId = FALSE,
            !.tickers = IF a.contadorId THEN a.tickers - 1 ELSE a.tickers]

\* The reads and timers a handler would create fit the bounds of the model.
Cabe(a, c) ==
  /\ \A i \in Ids : a.enVuelo[i] <= c.vuelo
  /\ \A i \in Ids : Cardinality(TimersDe(a, i)) <= c.timers

\* ------------------------------------------------------------------------
\* src/servicios/restService.js: configuration hash and diff engine
\* ------------------------------------------------------------------------

\* hashConfiguracion(registradores): the JSON text of the list sorted by id,
\* each device reduced to id, activo, intervaloSegundos (and the address
\* fields, which the model folds into the interval); nombre is not in it.
HashConfiguracion(snap) ==
  [i \in Ids |->
     IF snap[i].presente
       THEN <<"reg", snap[i].activo, snap[i].intervalo>>
       ELSE <<"sin">>]

\* ultimaConfigHash = null
HashNulo == [nulo |-> TRUE, h |-> HashConfiguracion(Vacio)]

Hash(snap) == [nulo |-> FALSE, h |-> HashConfiguracion(snap)]

\* new Map(registradores.map(r => [r.id, r.activo])); get() of a missing id
\* is undefined.
MapaActivos(snap) ==
  [i \in Ids |->
     IF ~snap[i].presente THEN "undefined"
     ELSE IF snap[i].activo THEN "true" ELSE "false"]

\* The ids of the new snapshot whose active flag differs from the stored one,
\* in the order of the snapshot.
CambiosActivo(activosPrevios, snap) ==
  SelectSeq(EnOrden(IdsDe(snap)),
            LAMBDA i : /\ activosPrevios[i] # "undefined"
                       /\ activosPrevios[i] # MapaActivos(snap)[i])

\* detectarTipoCambio without its check of the active flags.
DetectarTipoCambioSinActivo(idsPrevios, activosPrevios, snap) ==
  IF \E i \in IdsDe(snap) : i \notin idsPrevios
    THEN [requiereReinicio |-> TRUE, razon |-> "nuevo registrador agregado"]
  ELSE IF \E i \in idsPrevios : i \notin IdsDe(snap)
    THEN [requiereReinicio |-> TRUE, razon |-> "registrador eliminado"]
  ELSE [requiereReinicio |-> FALSE, razon |-> "cambio de configuracion menor"]

\* detectarTipoCambio with the check for removed ids ahead of that for new ids.
DetectarTipoCambioEliminadosPrimero(idsPrevios, activosPrevios, snap) ==
  IF \E i \in idsPrevios : i \notin IdsDe(snap)
    THEN [requiereReinicio |-> TRUE, razon |-> "registrador eliminado"]
  ELSE IF \E i \in IdsDe(snap) : i \notin idsPrevios
    THEN [requiereReinicio |-> TRUE, razon |-> "nuevo registrador agregado"]
  ELSE IF CambiosActivo(activosPrevios, snap) # <<>>
    THEN [requiereReinicio |-> TRUE,
          razon |-> IF snap[Head(CambiosActivo(activosPrevios, snap))].activo
                      THEN "registrador activado"
                      ELSE "registrador desactivado"]
  ELSE [requiereReinicio |-> FALSE, razon |-> "cambio de configuracion menor"]

\* detectarTipoCambio(hashAnterior, hashNuevo, registradoresNuevos): the
\* first matching check decides.
DetectarTipoCambio(idsPrevios, activosPrevios, snap) ==
  IF \E i \in IdsDe(snap) : i \notin idsPrevios
    THEN [requiereReinicio |-> TRUE, razon |-> "nuevo registrador agregado"]
  ELSE IF \E i \in idsPrevios : i \notin IdsDe(snap)
    THEN [requiereReinicio |-> TRUE, razon |-> "registrador eliminado"]
  ELSE IF CambiosActivo(activosPrevios, snap) # <<>>
    THEN [requiereReinicio |-> TRUE,
          razon |-> IF snap[Head(CambiosActivo(activosPrevios, snap))].activo
                      THEN "registrador activado"
                      ELSE "registrador desactivado"]
  ELSE [requiereReinicio |-> FALSE, razon |-> "cambio de configuracion menor"]

\* pollConfiguracion without its branch for a missing stored hash.
ClasificarSinBase(hashPrevio, idsPrevios, activosPrevios, snap) ==
  IF hashPrevio = Hash(snap)
    THEN [tipo |-> "ninguno", razon |-> ""]
  ELSE LET c == DetectarTipoCambio(idsPrevios, activosPrevios, snap)
       IN [tipo |-> IF c.requiereReinicio THEN "estructural" ELSE "menor",
           razon |-> c.razon]

\* What pollConfiguracion decides for a fetched snapshot: nothing when no
\* hash is stored or the hash is the stored one, else the diff.
Clasificar(hashPrevio, idsPrevios, activosPrevios, snap) ==
  IF hashPrevio.nulo
    THEN [tipo |-> "base", razon |-> ""]
  ELSE IF hashPrevio = Hash(snap)
    THEN [tipo |-> "ninguno", razon |-> ""]
  ELSE LET c == DetectarTipoCambio(idsPrevios, activosPrevios, snap)
       IN [tipo |-> IF c.requiereReinicio THEN "estructural" ELSE "menor",
           razon |-> c.razon]

\* callbacks.onConfiguracionActualizada: iniciarConexion never sets it.
OnConfiguracionActualizadaPuesto == FALSE

\* ------------------------------------------------------------------------
\* The session: actions
\* ------------------------------------------------------------------------

\* The fetches in flight are a bag: two of them may carry the same answer.
HaySlot(c) == BagCardinality(solicitudes) < c.sol

Emitir(tipo, esInicial) ==
  solicitudes (+) SetToBag({[tipo |-> tipo, esInicial |-> esInicial,
                             snap |-> backend]})

Retirar(q) == solicitudes (-) SetToBag({q})

SinPoll == [tipo |-> "", razon |-> ""]

\* iniciarConexion has not been called: no callback has run and restService
\* holds no interval.
ConexionInicial ==
  [pc |-> "sinIniciar", onError |-> 0, onAutenticado |-> 0,
   conectado |-> FALSE,
   heartbeatIntervalId |-> FALSE, testsPollIntervalId |-> FALSE,
   vivos |-> [heartbeat |-> 0, config |-> 0, tests |-> 0]]

\* Calls of iniciarConexion that authenticate.
MaxConexiones == 2

\* `if (id) clearInterval(id); id = setInterval(...)`: the number of live
\* intervals of the kind afterwards, n being the number before.
IniciarIntervaloSinLimpiar(id, n) == n + 1

IniciarIntervalo(id, n) == IF id THEN n ELSE n + 1

\* `if (id) { clearInterval(id); id = null; }`
DetenerIntervalo(id, n) == IF id THEN n - 1 ELSE n

\* iniciarConexion() after `await autenticar()`: what it does with the result.
ConexionTrasAutenticarSinComprobar(con, exito) ==
  [con EXCEPT !.pc = IF exito THEN "iniciada" ELSE "fallida",
              !.onError = IF exito THEN con.onError ELSE con.onError + 1,
              !.onAutenticado = con.onAutenticado + 1,
              !.heartbeatIntervalId = TRUE, !.testsPollIntervalId = TRUE]

ConexionTrasAutenticar(con, exito) ==
  IF exito
    THEN [con EXCEPT !.pc = "iniciada", !.onAutenticado = con.onAutenticado + 1,
                     !.conectado = TRUE,
                     !.heartbeatIntervalId = TRUE, !.testsPollIntervalId = TRUE,
                     !.vivos.heartbeat =
                        IniciarIntervalo(con.heartbeatIntervalId, @),
                     !.vivos.tests =
                        IniciarIntervalo(con.testsPollIntervalId, @)]
    ELSE [con EXCEPT !.pc = "fallida", !.onError = con.onError + 1]

\* iniciarConfigPolling(), for the count of live config-poll intervals; id
\* is configPollIntervalId before the call.
ConfigPollingIniciado(con, id) ==
  [con EXCEPT !.vivos.config = IniciarIntervalo(id, @)]

\* The part of detenerIntervalos() for the config-poll interval.
ConfigPollingDetenido(con, id) ==
  [con EXCEPT !.vivos.config = DetenerIntervalo(id, @)]

\* A session whose iniciarConexion authenticated.
ConexionIniciada ==
  ConfigPollingIniciado(ConexionTrasAutenticar(ConexionInicial, TRUE), FALSE)

\* detenerIntervalos(), for the intervals of the heartbeat and the test poll.
DetenerIntervalos(con) ==
  [con EXCEPT !.heartbeatIntervalId = FALSE, !.testsPollIntervalId = FALSE,
              !.vivos.heartbeat = DetenerIntervalo(con.heartbeatIntervalId, @),
              !.vivos.tests = DetenerIntervalo(con.testsPollIntervalId, @)]

\* cerrarConexion(), for what the record holds.
CerrarConexion(con) == [DetenerIntervalos(con) EXCEPT !.conectado = FALSE]

\* The onDesconectado handler of main: it marks the UI as disconnected and
\* logs; the scheduler's state is not touched.
OnDesconectado(a) == a

InitSesion(ids, regs) ==
  /\ backend \in Snapshots
  /\ \A i \in ids : backend[i] \in regs \cup {Ausente}
  /\ \A i \in Ids \ ids : backend[i] = Ausente
  /\ AgPoner(AgInicial)
  /\ token = FALSE
  /\ configPollIntervalId = FALSE
  /\ ultimaConfigHash = HashNulo
  /\ ultimosRegistradoresIds = {}
  /\ ultimosRegistradoresActivos = MapaActivos(Vacio)
  /\ solicitudes = EmptyBag
  /\ ultimoPoll = SinPoll
  /\ huboFetch = FALSE
  /\ salio = FALSE
  /\ conexion = ConexionInicial

\* The operator edits one device of the backend's registry: adds it, removes
\* it or changes its fields.
EditarBackend(ids, regs) ==
  /\ \E i \in ids, r \in regs \cup {Ausente} :
       /\ r # backend[i]
       /\ backend' = [backend EXCEPT ![i] = r]
  /\ UNCHANGED <<agVars, restVars, solicitudes, ultimoPoll,
                 huboFetch, salio>>

\* iniciarConexion() with a successful autenticar(): onAutenticado starts
\* cargarRegistradores, which issues the fetch of obtenerConfiguracion(esInicial),
\* and the config poller is started.
IniciarConexion(c) ==
  /\ ~token /\ ~salio /\ ~configPollIntervalId
  /\ conexion.pc = "sinIniciar"
  /\ HaySlot(c)
  /\ conexion' = ConfigPollingIniciado(ConexionTrasAutenticar(conexion, TRUE),
                                       configPollIntervalId)
  /\ token' = TRUE
  /\ configPollIntervalId' = TRUE
  /\ solicitudes' = Emitir("inicial", IdsDe(registradoresCache) = {})
  /\ UNCHANGED <<backend, agVars, ultimaConfigHash,
                 ultimosRegistradoresIds, ultimosRegistradoresActivos,
                 ultimoPoll, huboFetch, salio>>

\* A further call of the exported iniciarConexion() on a started session,
\* with a successful autenticar(): the callbacks run again and the three
\* intervals are started again.
ReiniciarConexion(c) ==
  /\ ~salio
  /\ conexion.pc = "iniciada"
  /\ conexion.onAutenticado < MaxConexiones
  /\ HaySlot(c)
  /\ conexion' = ConfigPollingIniciado(ConexionTrasAutenticar(conexion, TRUE),
                                       configPollIntervalId)
  /\ token' = TRUE
  /\ configPollIntervalId' = TRUE
  /\ solicitudes' = Emitir("inicial", IdsDe(registradoresCache) = {})
  /\ UNCHANGED <<backend, agVars, ultimaConfigHash,
                 ultimosRegistradoresIds, ultimosRegistradoresActivos,
                 ultimoPoll, huboFetch, salio>>

\* iniciarConexion() whose autenticar() returns false (the backend rejects
\* the key, or the fetch of /agente/auth fails): onError is called and
\* nothing is started.
IniciarConexionFalla ==
  /\ ~token /\ ~salio /\ ~configPollIntervalId
  /\ conexion.pc = "sinIniciar"
  /\ conexion' = ConexionTrasAutenticar(conexion, FALSE)
  /\ UNCHANGED <<backend, agVars, token, configPollIntervalId,
                 ultimaConfigHash, ultimosRegistradoresIds,
                 ultimosRegistradoresActivos, solicitudes, ultimoPoll,
                 huboFetch, salio>>

\* The config poller fires: pollConfiguracion() up to its fetch.
PollEmitir(c) ==
  /\ configPollIntervalId /\ token
  /\ HaySlot(c)
  /\ solicitudes' = Emitir("poll", FALSE)
  /\ UNCHANGED <<backend, agVars, restVars, ultimoPoll,
                 huboFetch, salio>>

\* pollConfiguracion whose minor change reloads the registry and restarts
\* the polling of every device.
PollProcesarReinicia(a, snap) ==
  LET c == Clasificar(ultimaConfigHash, ultimosRegistradoresIds,
                      ultimosRegistradoresActivos, snap)
      detecta == c.tipo \in {"estructural", "menor"}
  IN [ag |-> IF c.tipo = "estructural"
               THEN ActualizarRegistradoresGranular(a, snap)
             ELSE IF c.tipo = "menor"
               THEN IniciarPolling(DetenerPolling([a EXCEPT !.cache = snap]))
             ELSE a,
      hash |-> Hash(snap),
      ids |-> IF detecta THEN IdsDe(snap) ELSE ultimosRegistradoresIds,
      activos |-> IF detecta THEN MapaActivos(snap)
                  ELSE ultimosRegistradoresActivos,
      poll |-> c]

\* pollConfiguracion() after its fetch, lines 310-333, the structural
\* callback (actualizarRegistradoresGranular) included.
PollProcesar(a, snap) ==
  LET c == Clasificar(ultimaConfigHash, ultimosRegistradoresIds,
                      ultimosRegistradoresActivos, snap)
      detecta == c.tipo \in {"estructural", "menor"}
  IN [ag |-> IF c.tipo = "estructural"
               THEN ActualizarRegistradoresGranular(a, snap) ELSE a,
      hash |-> Hash(snap),
      ids |-> IF detecta THEN IdsDe(snap) ELSE ultimosRegistradoresIds,
      activos |-> IF detecta THEN MapaActivos(snap)
                  ELSE ultimosRegistradoresActivos,
      poll |-> c]

PollEntrega(c) ==
  \E q \in BagToSet(solicitudes) :
    /\ q.tipo = "poll"
    /\ LET r == PollProcesar(AgActual, q.snap)
       IN /\ Cabe(r.ag, c)
          /\ AgAsignar(r.ag)
          /\ ultimaConfigHash' = r.hash
          /\ ultimosRegistradoresIds' = r.ids
          /\ ultimosRegistradoresActivos' = r.activos
          /\ ultimoPoll' = r.poll
    /\ huboFetch' = TRUE
    /\ solicitudes' = Retirar(q)
    /\ UNCHANGED <<backend, token, configPollIntervalId, conexion,
                   salio>>

\* The fetch of a config poll fails: pollConfiguracion logs and returns.
PollFalla ==
  \E q \in BagToSet(solicitudes) :
    /\ q.tipo = "poll"
    /\ solicitudes' = Retirar(q)
    /\ UNCHANGED <<backend, agVars, restVars, ultimoPoll,
                   huboFetch, salio>>

\* The fetch of a config poll fails with 'fetch failed' or ECONNREFUSED:
\* fetchBackend clears conectado and invokes onDesconectado before it
\* rethrows, and pollConfiguracion logs and returns.
PollDesconecta ==
  \E q \in BagToSet(solicitudes) :
    /\ q.tipo = "poll"
    /\ solicitudes' = Retirar(q)
    /\ conexion' = [conexion EXCEPT !.conectado = FALSE]
    /\ AgAsignar(OnDesconectado(AgActual))
    /\ UNCHANGED <<backend, token, configPollIntervalId, ultimaConfigHash,
                   ultimosRegistradoresIds, ultimosRegistradoresActivos,
                   ultimoPoll, huboFetch, salio>>

\* What follows `await cargarRegistradores()`: onAutenticado starts polling
\* when the cache is not empty, onRecargar always calls iniciarPolling().
TrasCargar(a, tipo) ==
  IF tipo = "inicial" /\ IdsDe(a.cache) = {} THEN a ELSE IniciarPolling(a)

\* cargarRegistradores() after the fetch: obtenerConfiguracion seeds the
\* baseline when esInicial, the cache and the UI table are replaced, and the
\* caller goes on.
CargaEntrega(c) ==
  \E q \in BagToSet(solicitudes) :
    /\ q.tipo \in {"inicial", "recarga"}
    /\ LET a1 == [AgActual EXCEPT !.cache = q.snap,
                                  !.ui = SetRegistradores(q.snap)]
           a2 == TrasCargar(a1, q.tipo)
       IN /\ Cabe(a2, c)
          /\ AgAsignar(a2)
    /\ IF q.esInicial
         THEN /\ ultimaConfigHash' = Hash(q.snap)
              /\ ultimosRegistradoresIds' = IdsDe(q.snap)
              /\ ultimosRegistradoresActivos' = MapaActivos(q.snap)
         ELSE UNCHANGED <<ultimaConfigHash, ultimosRegistradoresIds,
                          ultimosRegistradoresActivos>>
    /\ ultimoPoll' = [tipo |-> "carga", razon |-> ""]
    /\ huboFetch' = TRUE
    /\ solicitudes' = Retirar(q)
    /\ UNCHANGED <<backend, token, configPollIntervalId, conexion,
                   salio>>

\* The fetch of cargarRegistradores fails: it returns [] and leaves the cache.
CargaFalla(c) ==
  \E q \in BagToSet(solicitudes) :
    /\ q.tipo \in {"inicial", "recarga"}
    /\ LET a2 == TrasCargar(AgActual, q.tipo)
       IN /\ Cabe(a2, c)
          /\ AgAsignar(a2)
    /\ solicitudes' = Retirar(q)
    /\ UNCHANGED <<backend, restVars, ultimoPoll,
                   huboFetch, salio>>

\* onRecargar: detenerPolling(), then cargarRegistradores() up to its fetch.
\* Without an authenticated agent cargarRegistradores returns [] at once
\* and iniciarPolling() follows.
Recargar(c) ==
  /\ ~salio
  /\ IF token
       THEN /\ HaySlot(c)
            /\ AgAsignar(DetenerPolling(AgActual))
            /\ solicitudes' = Emitir("recarga", IdsDe(registradoresCache) = {})
       ELSE /\ LET a2 == IniciarPolling(DetenerPolling(AgActual))
               IN Cabe(a2, c) /\ AgAsignar(a2)
            /\ UNCHANGED solicitudes
  /\ UNCHANGED <<backend, restVars, ultimoPoll, huboFetch, salio>>

\* The callback of a timer created by iniciarPolling (lines 200-206): it
\* reads the captured reg and resets the countdown to the captured interval.
DispararInicialEsperaLecturas(a, t) ==
  IF \E i \in Ids \ {t.id} : a.enVuelo[i] > 0 THEN a
  ELSE LET a1 == LeerRegistradorInicio(a, t.id)
       IN [a1 EXCEPT !.contadores[t.id] = IntervaloEfectivo(t.reg),
                     !.ui = ActualizarProxima(a1.ui, t.id, IntervaloEfectivo(t.reg))]

DispararInicialSinLectura(a, t) ==
  [a EXCEPT !.contadores[t.id] = IntervaloEfectivo(t.reg),
            !.ui = ActualizarProxima(a.ui, t.id, IntervaloEfectivo(t.reg))]

DispararInicial(a, t) ==
  LET a1 == LeerRegistradorInicio(a, t.id)
  IN [a1 EXCEPT !.contadores[t.id] = IntervaloEfectivo(t.reg),
                !.ui = ActualizarProxima(a1.ui, t.id, IntervaloEfectivo(t.reg))]

\* The callback of a timer created by iniciarPollingRegistrador (lines
\* 311-322): it looks the device up in the cache.
DispararRegistrador(a, t) ==
  LET regActual == a.cache[t.id]
      a1 == LeerRegistradorInicio(a, t.id)
  IN [a1 EXCEPT !.contadores[t.id] = IntervaloEfectivo(regActual),
                !.ui = ActualizarProxima(a1.ui, t.id, IntervaloEfectivo(regActual))]

\* A live timer fires and its callback starts a read.
TimerDispara(c) ==
  \E t \in timers :
    /\ cicloActivo
    /\ t.tipo = "registrador" =>
         registradoresCache[t.id].presente /\ registradoresCache[t.id].activo
    /\ LET a1 == IF t.tipo = "inicial" THEN DispararInicial(AgActual, t)
                 ELSE DispararRegistrador(AgActual, t)
       IN Cabe(a1, c) /\ AgAsignar(a1)
    /\ UNCHANGED <<backend, restVars, solicitudes,
                   ultimoPoll, huboFetch, salio>>

LeerRegistradorFinDetiene(a, id, est) ==
  LET a1 == [a EXCEPT !.ui = ActualizarEstado(a.ui, id, est),
                      !.enVuelo[id] = a.enVuelo[id] - 1]
  IN IF est = "error" THEN DetenerPollingRegistrador(a1, id) ELSE a1

\* leerRegistrador after its awaits: the row of the device shows the outcome
\* ('activo' when the reading was sent, 'error' otherwise).
LeerRegistradorFin(a, id, est) ==
  [a EXCEPT !.ui = ActualizarEstado(a.ui, id, est),
            !.enVuelo[id] = a.enVuelo[id] - 1]

LecturaTermina ==
  \E i \in Ids, est \in {"activo", "error"} :
    /\ enVuelo[i] > 0
    /\ AgAsignar(LeerRegistradorFin(AgActual, i, est))
    /\ UNCHANGED <<backend, restVars, solicitudes,
                   ultimoPoll, huboFetch, salio>>

\* onSalir / SIGINT / SIGTERM: detenerPolling() and cerrarConexion().
Salir ==
  /\ ~salio
  /\ salio' = TRUE
  /\ AgAsignar(DetenerPolling(AgActual))
  /\ token' = FALSE
  /\ configPollIntervalId' = FALSE
  /\ ultimaConfigHash' = HashNulo
  /\ conexion' = ConfigPollingDetenido(CerrarConexion(conexion),
                                       configPollIntervalId)
  /\ UNCHANGED <<backend, ultimosRegistradoresIds,
                 ultimosRegistradoresActivos, solicitudes, ultimoPoll,
                 huboFetch>>

\* ------------------------------------------------------------------------
\* src/index.js: ejecutarTestConexion
\* ------------------------------------------------------------------------

\* Ids of the connection tests the backend hands out.
TestIds == {"t1", "t2"}

\* Deliveries of one test id in a behaviour.
MaxEntregas == 2

\* A check that never finds the id.
NuncaEnProceso(id) == FALSE

\* A check that finds any test in process, whatever its id.
AlgunoEnProceso(id) == testsEnProceso # {}

\* A check that also finds the tests that have finished.
EnProcesoOTerminado(id) ==
  id \in testsEnProceso \/ \E d \in terminadas : d.id = id

\* testsEnProceso.has(test.id)
EnProceso(id) == id \in testsEnProceso

\* A finally block that leaves the set as it is.
NoLiberarTest(enProceso, id) == enProceso

\* testsEnProceso.delete(test.id), the finally block
LiberarTest(enProceso, id) == enProceso \ {id}

EjecucionesDe(id) == {e \in ejecuciones : e.id = id}

\* onTestPendiente(test): ejecutarTestConexion(test) up to its first await.
\* A test that is in process returns at once; else the id is marked and
\* testConexionModbus is called. k tells apart the executions of one id.
EjecutarTestConexion(id) ==
  /\ entregas[id] < MaxEntregas
  /\ entregas' = [entregas EXCEPT ![id] = @ + 1]
  /\ IF EnProceso(id)
       THEN UNCHANGED <<testsEnProceso, ejecuciones, invocaciones>>
       ELSE /\ testsEnProceso' = testsEnProceso \cup {id}
            /\ ejecuciones' = ejecuciones \cup
                 {[id |-> id, k |-> entregas[id] + 1, pc |-> "test",
                   resultado |-> "", informes |-> <<>>]}
            /\ invocaciones' = [invocaciones EXCEPT ![id] = @ + 1]
  /\ UNCHANGED <<terminadas, tokenTest>>

\* The outcomes of `await testConexionModbus(...)`: a result with exito true
\* (it has no registros field), a result with exito false, or a rejection.
ResultadosTest == {"exito", "fallo", "lanza"}

\* The execution goes on after testConexionModbus. With exito true,
\* resultado.registros.length throws before any report, so that result and a
\* rejection both reach the catch block; with exito false the try block reports.
TestResuelve(e, res) ==
  /\ e \in ejecuciones /\ e.pc = "test"
  /\ ejecuciones' = (ejecuciones \ {e}) \cup
       {[e EXCEPT !.resultado = res,
                  !.pc = IF res = "fallo" THEN "reporteTry" ELSE "reporteCatch",
                  !.informes = Append(e.informes, "fallo")]}
  /\ UNCHANGED <<testsEnProceso, entregas, invocaciones, terminadas, tokenTest>>

\* The end of an execution: the finally block unmarks the id.
Terminar(e) ==
  /\ testsEnProceso' = LiberarTest(testsEnProceso, e.id)
  /\ ejecuciones' = ejecuciones \ {e}
  /\ terminadas' = terminadas \cup
       {[id |-> e.id, resultado |-> e.resultado, informes |-> e.informes]}

\* reportarResultadoTest called in the try block resolves: finally.
ReporteTryResuelve(e) ==
  /\ e \in ejecuciones /\ e.pc = "reporteTry"
  /\ tokenTest
  /\ Terminar(e)
  /\ UNCHANGED <<entregas, invocaciones, tokenTest>>

\* reportarResultadoTest called in the try block rejects (no token, or the
\* request fails): the catch block reports again.
ReporteTryRechaza(e) ==
  /\ e \in ejecuciones /\ e.pc = "reporteTry"
  /\ ejecuciones' = (ejecuciones \ {e}) \cup
       {[e EXCEPT !.pc = "reporteCatch",
                  !.informes = Append(e.informes, "fallo")]}
  /\ UNCHANGED <<testsEnProceso, entregas, invocaciones, terminadas, tokenTest>>

\* reportarResultadoTest called in the catch block resolves or rejects (the
\* inner catch logs): finally.
ReporteCatchTermina(e) ==
  /\ e \in ejecuciones /\ e.pc = "reporteCatch"
  /\ Terminar(e)
  /\ UNCHANGED <<entregas, invocaciones, tokenTest>>

\* cerrarConexion() clears the token: later reports reject.
CerrarConexionTest ==
  /\ tokenTest
  /\ tokenTest' = FALSE
  /\ UNCHANGED <<testsEnProceso, ejecuciones, entregas, invocaciones, terminadas>>

TestEnReposo ==
  /\ testsEnProceso = {}
  /\ ejecuciones = {}
  /\ entregas = [i \in TestIds |-> 0]
  /\ invocaciones = [i \in TestIds |-> 0]
  /\ terminadas = {}
  /\ tokenTest = TRUE

\* ------------------------------------------------------------------------
\* src/modbus/clienteModbus.js: leerRegistrosModbus and testConexionModbus
\* ------------------------------------------------------------------------

\* The arguments of an invocation.
IpsModbus == {"", "10.0.0.5"}

PuertosModbus == {-1, 0, 502}

CantidadesModbus == {-1, 0, 1, 2}

ArgsModbus ==
  [op : {"leer", "test"}, ip : IpsModbus, puerto : PuertosModbus,
   cantidad : CantidadesModbus]

SinArgs == [op |-> "", ip |-> "", puerto |-> 0, cantidad |-> 0]

\* The validation at the head of each executor: leerRegistrosModbus rejects
\* a missing ip, a port of 0 and a count <= 0 (line 25); testConexionModbus
\* a missing ip and a port of 0 (line 79).
ParametrosValidos(a) ==
  IF a.op = "leer"
    THEN a.ip # "" /\ a.puerto # 0 /\ a.cantidad > 0
    ELSE a.ip # "" /\ a.puerto # 0

\* An executor is called: validation, then the simulated mode, then the client.
MbLlamar ==
  /\ mbPc = "libre"
  /\ \E a \in ArgsModbus :
       /\ mbArgs' = a
       /\ IF ~ParametrosValidos(a)
            THEN /\ mbPc' = "retornado"
                 /\ mbResultado' = "fallo"
                 /\ clienteCreado' = FALSE
          ELSE IF modoModbus = "simulado"
            THEN /\ mbPc' = IF a.op = "leer" THEN "retornado" ELSE "demora"
                 /\ mbResultado' = "exito"
                 /\ clienteCreado' = FALSE
          ELSE /\ mbPc' = "conectando"
               /\ mbResultado' = ""
               /\ clienteCreado' = TRUE
  /\ intentosConexion' = 0
  /\ cierres' = 0
  /\ UNCHANGED <<modoModbus, conexionAbierta>>

\* testConexionModbus, simulated: the delay elapses.
MbDemora ==
  /\ mbPc = "demora"
  /\ mbPc' = "retornado"
  /\ UNCHANGED <<modoModbus, mbArgs, clienteCreado, conexionAbierta,
                 intentosConexion, cierres, mbResultado>>

\* await cliente.connectTCP(...) resolves.
MbConecta ==
  /\ mbPc = "conectando"
  /\ intentosConexion' = intentosConexion + 1
  /\ conexionAbierta' = TRUE
  /\ mbPc' = "leyendo"
  /\ UNCHANGED <<modoModbus, mbArgs, clienteCreado, cierres, mbResultado>>

\* await cliente.connectTCP(...) rejects: catch, then finally.
MbConexionFalla ==
  /\ mbPc = "conectando"
  /\ intentosConexion' = intentosConexion + 1
  /\ mbResultado' = "fallo"
  /\ mbPc' = "finally"
  /\ UNCHANGED <<modoModbus, mbArgs, clienteCreado, conexionAbierta, cierres>>

\* await cliente.readHoldingRegisters(...) resolves or rejects: the try block
\* returns the data or the catch block the failure, then finally.
MbLee ==
  /\ mbPc = "leyendo"
  /\ \E r \in {"exito", "fallo"} : mbResultado' = r
  /\ mbPc' = "finally"
  /\ UNCHANGED <<modoModbus, mbArgs, clienteCreado, conexionAbierta,
                 intentosConexion, cierres>>

\* A finally block that closes only a client whose connection was opened.
CerrarClienteSiAbierta ==
  /\ cierres' = IF conexionAbierta THEN cierres + 1 ELSE cierres
  /\ conexionAbierta' = FALSE

\* The finally block: cliente.close(), whose own error is ignored.
CerrarCliente ==
  /\ cierres' = cierres + 1
  /\ conexionAbierta' = FALSE

MbFinally ==
  /\ mbPc = "finally"
  /\ CerrarCliente
  /\ mbPc' = "retornado"
  /\ UNCHANGED <<modoModbus, mbArgs, clienteCreado, intentosConexion, mbResultado>>

\* The caller has the result; the next invocation may start.
MbRetorna ==
  /\ mbPc = "retornado"
  /\ mbPc' = "libre"
  /\ UNCHANGED <<modoModbus, mbArgs, clienteCreado, conexionAbierta,
                 intentosConexion, cierres, mbResultado>>

MbEnReposo(modos) ==
  /\ modoModbus \in modos
  /\ mbPc = "libre"
  /\ mbArgs = SinArgs
  /\ clienteCreado = FALSE
  /\ conexionAbierta = FALSE
  /\ intentosConexion = 0
  /\ cierres = 0
  /\ mbResultado = ""

\* ------------------------------------------------------------------------
\* src/index.js: leerRegistrador, one call from its start to its return
\* ------------------------------------------------------------------------

\* A call of enviarLecturas: the record it carries and whether a request was
\* issued (enviarLecturas throws before its fetch when there is no token).
Informe(exito, tok) == [exito |-> exito, conError |-> ~exito, enviado |-> tok]

\* Calls of leerRegistrador that are followed to their end.
MaxLecturas == 3

\* logRegistrador(registradorId, mensaje, exito), for the counters of the
\* device: one of the two is incremented.
LogRegistradorSoloExitos(stats, exito) ==
  IF exito THEN [stats EXCEPT !.exitosas = stats.exitosas + 1] ELSE stats

LogRegistrador(stats, exito) ==
  IF exito THEN [stats EXCEPT !.exitosas = stats.exitosas + 1]
  ELSE [stats EXCEPT !.fallidas = stats.fallidas + 1]

\* No call of leerRegistrador is observed.
LecturaEnReposo ==
  /\ lecPc = "libre"
  /\ lecValores = FALSE
  /\ lecInformes = <<>>
  /\ lecEstado = "espera"
  /\ lecRetorno = ""
  /\ estadisticasPorRegistrador = [exitosas |-> 0, fallidas |-> 0]
  /\ lecCompletadas = 0

\* leerRegistrador(reg) up to `await leerRegistrosModbus(...)`: the row shows
\* 'leyendo' (line 94) and the read executor is called.
LeerRegistradorLlama ==
  /\ lecPc = "libre"
  /\ lecCompletadas < MaxLecturas
  /\ lecPc' = "modbus"
  /\ lecEstado' = "leyendo"
  /\ lecInformes' = <<>>
  /\ lecValores' = FALSE
  /\ lecRetorno' = ""
  /\ MbLlamar
  /\ mbArgs'.op = "leer"
  /\ UNCHANGED <<token, estadisticasPorRegistrador, lecCompletadas>>

\* The catch block of leerRegistrador up to its await (lines 134-147): the
\* failure is reported with a call of enviarLecturas of its own.
EntrarCatch(informes) == Append(informes, Informe(FALSE, token))

\* leerRegistrosModbus has returned. With values, enviarLecturas is called
\* with exito true (line 107); without a token it rejects at once and the
\* catch block is entered. With null, Array.from(valores) throws (line 109)
\* and the catch block is entered.
LeerRegistradorTrasModbus ==
  /\ lecPc = "modbus" /\ mbPc = "retornado"
  /\ MbRetorna
  /\ lecValores' = (mbResultado = "exito")
  /\ IF mbResultado = "exito"
       THEN LET primero == Append(lecInformes, Informe(TRUE, token))
            IN IF token
                 THEN lecPc' = "envio" /\ lecInformes' = primero
                 ELSE lecPc' = "envioCatch" /\ lecInformes' = EntrarCatch(primero)
       ELSE lecPc' = "envioCatch" /\ lecInformes' = EntrarCatch(lecInformes)
  /\ UNCHANGED <<lecEstado, lecRetorno, token, estadisticasPorRegistrador,
                 lecCompletadas>>

\* `await enviarLecturas(...)` of the try block resolves: the row shows
\* 'activo' when resultado.ok, else 'error', logRegistrador counts the read
\* and the call returns exito true.
EnvioResuelve ==
  /\ lecPc = "envio"
  /\ \E ok \in BOOLEAN :
       /\ lecEstado' = IF ok THEN "activo" ELSE "error"
       /\ estadisticasPorRegistrador' =
            LogRegistrador(estadisticasPorRegistrador, ok)
  /\ lecRetorno' = "exito"
  /\ lecPc' = "libre"
  /\ lecCompletadas' = lecCompletadas + 1
  /\ UNCHANGED <<lecValores, lecInformes, token, mbVars>>

\* `await enviarLecturas(...)` of the try block rejects (fetchBackend threw):
\* the catch block is entered.
EnvioRechaza ==
  /\ lecPc = "envio"
  /\ lecInformes' = EntrarCatch(lecInformes)
  /\ lecPc' = "envioCatch"
  /\ UNCHANGED <<lecValores, lecEstado, lecRetorno, token, mbVars,
                 estadisticasPorRegistrador, lecCompletadas>>

\* The call of enviarLecturas in the catch block settles (its rejection is
\* ignored): the row shows 'error', logRegistrador counts a failed read and
\* the call returns exito false.
EnvioCatchTermina ==
  /\ lecPc = "envioCatch"
  /\ lecEstado' = "error"
  /\ estadisticasPorRegistrador' =
       LogRegistrador(estadisticasPorRegistrador, FALSE)
  /\ lecRetorno' = "fallo"
  /\ lecPc' = "libre"
  /\ lecCompletadas' = lecCompletadas + 1
  /\ UNCHANGED <<lecValores, lecInformes, token, mbVars>>

\* iniciarConexion / cerrarConexion: the token is set or cleared.
CambiaToken ==
  /\ token' = ~token
  /\ UNCHANGED <<lecVars, mbVars>>

\* ------------------------------------------------------------------------
\* Specifications
\* ------------------------------------------------------------------------

vars == <<sesionVars, testVars, mbVars, relojVars, lecVars>>

\* The clock is not observed.
RelojEnReposo ==
  /\ reloj = 0
  /\ vence = [i \in Ids |-> SinValor]
  /\ ticPendiente = FALSE
  /\ lecturas = [i \in Ids |-> 0]

\* The components a specification leaves at rest.
RestoEnReposo ==
  TestEnReposo /\ MbEnReposo({"simulado"}) /\ RelojEnReposo /\ LecturaEnReposo

\* The devices of a session: one id, whose active flag the backend edits.
IdsSesion == {"r1"}

RegsSesion == {r \in RegsPresentes : r.nombre = "A" /\ r.intervalo = 60}

\* A step of the session; the process exits after the shutdown handler.
Sesion(A) == ~salio /\ A /\ UNCHANGED <<testVars, mbVars, relojVars, lecVars>>

NextSesion ==
  \/ Sesion(EditarBackend(IdsSesion, RegsSesion))
  \/ Sesion(IniciarConexion(CotasSesion))
  \/ Sesion(PollEmitir(CotasSesion))
  \/ Sesion(PollEntrega(CotasSesion))
  \/ Sesion(PollFalla)
  \/ Sesion(CargaEntrega(CotasSesion))
  \/ Sesion(CargaFalla(CotasSesion))
  \/ Sesion(Recargar(CotasSesion))
  \/ Sesion(TimerDispara(CotasSesion))
  \/ Sesion(LecturaTermina)
  \/ Sesion(Salir)

\* A whole session of the agent.
Init == InitSesion(IdsSesion, RegsSesion) /\ RestoEnReposo

Spec == Init /\ [][NextSesion]_vars

\* The start of a session: a device whose presence, active flag and interval
\* the backend edits; no manual reload, no shutdown.
IdsArranque == {"r1"}

RegsArranque == {r \in RegsPresentes : r.nombre = "A"}

NextArranque ==
  \/ Sesion(EditarBackend(IdsArranque, RegsArranque))
  \/ Sesion(IniciarConexion(CotasArranque))
  \/ Sesion(PollEmitir(CotasArranque))
  \/ Sesion(PollEntrega(CotasArranque))
  \/ Sesion(PollFalla)
  \/ Sesion(CargaEntrega(CotasArranque))
  \/ Sesion(CargaFalla(CotasArranque))
  \/ Sesion(TimerDispara(CotasArranque))
  \/ Sesion(LecturaTermina)

InitArranque == InitSesion(IdsArranque, RegsArranque) /\ RestoEnReposo

SpecArranque == InitArranque /\ [][NextArranque]_vars

\* The diff engine alone: one config poll against every baseline.

\* The agent after a successful initial load of snapshot b.
AgTrasCargaInicial(b) ==
  TrasCargar([AgInicial EXCEPT !.cache = b, !.ui = SetRegistradores(b)], "inicial")

\* A session whose initial load fetched b (obtenerConfiguracion(true) seeded
\* the baseline) and whose config poll has a fetch in flight that carries n.
InitUnPoll ==
  \E b \in Snapshots, n \in Snapshots :
    /\ backend = n
    /\ AgPoner(AgTrasCargaInicial(b))
    /\ token = TRUE
    /\ configPollIntervalId = TRUE
    /\ ultimaConfigHash = Hash(b)
    /\ ultimosRegistradoresIds = IdsDe(b)
    /\ ultimosRegistradoresActivos = MapaActivos(b)
    /\ solicitudes = SetToBag({[tipo |-> "poll", esInicial |-> FALSE, snap |-> n]})
    /\ ultimoPoll = [tipo |-> "carga", razon |-> ""]
    /\ huboFetch = TRUE
    /\ salio = FALSE
    /\ conexion = ConexionIniciada

NextDiff == Sesion(PollEntrega(CotasSesion))

InitDiff == InitUnPoll /\ RestoEnReposo

SpecDiff == InitDiff /\ [][NextDiff]_vars

\* The same session with its timers running: the poll in flight is handled
\* while the timers of the devices fire and their reads end.
NextVivo ==
  \/ Sesion(PollEntrega(CotasArranque))
  \/ Sesion(TimerDispara(CotasArranque))
  \/ Sesion(LecturaTermina)

SpecVivo == InitDiff /\ [][NextVivo]_vars

\* The session whose initial load failed: the fetch of cargarRegistradores
\* threw, so the cache is empty, no baseline was seeded and iniciarPolling
\* was not called; the config poller runs.
InitCargaFallida ==
  /\ backend \in Snapshots
  /\ \A i \in IdsArranque : backend[i] \in RegsArranque \cup {Ausente}
  /\ \A i \in Ids \ IdsArranque : backend[i] = Ausente
  /\ AgPoner(AgInicial)
  /\ token = TRUE
  /\ configPollIntervalId = TRUE
  /\ ultimaConfigHash = HashNulo
  /\ ultimosRegistradoresIds = {}
  /\ ultimosRegistradoresActivos = MapaActivos(Vacio)
  /\ solicitudes = EmptyBag
  /\ ultimoPoll = SinPoll
  /\ huboFetch = FALSE
  /\ salio = FALSE
  /\ conexion = ConexionIniciada
  /\ RestoEnReposo

\* After it the fetches of the config polls succeed; the operator may edit
\* the backend's registry.
NextCargaFallida ==
  \/ Sesion(EditarBackend(IdsArranque, RegsArranque))
  \/ Sesion(PollEmitir(CotasAuth))
  \/ Sesion(PollEntrega(CotasAuth))
  \/ Sesion(TimerDispara(CotasAuth))
  \/ Sesion(LecturaTermina)

SpecCargaFallida == InitCargaFallida /\ [][NextCargaFallida]_vars

\* The config poller keeps firing, every fetch is answered, every timer
\* fires and every read ends.
SpecCargaFallidaFair ==
  /\ SpecCargaFallida
  /\ WF_vars(Sesion(PollEmitir(CotasAuth)))
  /\ WF_vars(Sesion(PollEntrega(CotasAuth)))
  /\ WF_vars(Sesion(TimerDispara(CotasAuth)))
  /\ WF_vars(Sesion(LecturaTermina))

\* The same session when the fetch of the poll may find the backend
\* unreachable.
NextDesconexion ==
  \/ Sesion(PollEntrega(CotasArranque))
  \/ Sesion(PollDesconecta)
  \/ Sesion(TimerDispara(CotasArranque))
  \/ Sesion(LecturaTermina)

SpecDesconexion == InitDiff /\ [][NextDesconexion]_vars

\* ------------------------------------------------------------------------
\* The session around its shutdown
\* ------------------------------------------------------------------------

\* A step that can also be taken between the shutdown handler and the exit
\* of the process (SIGINT and SIGTERM call process.exit 500 ms later, the
\* exit endpoint of the web UI 100 ms later): the continuation of a fetch or
\* of a read that was in flight when the handler ran.
Pendiente(A) == A /\ UNCHANGED <<testVars, mbVars, relojVars, lecVars>>

NextApagado ==
  \/ Sesion(EditarBackend(IdsArranque, RegsArranque))
  \/ Sesion(IniciarConexion(CotasArranque))
  \/ Sesion(PollEmitir(CotasArranque))
  \/ Sesion(TimerDispara(CotasArranque))
  \/ Sesion(Salir)
  \/ Pendiente(PollEntrega(CotasArranque))
  \/ Pendiente(PollFalla)
  \/ Pendiente(CargaEntrega(CotasArranque))
  \/ Pendiente(CargaFalla(CotasArranque))
  \/ Pendiente(LecturaTermina)

SpecApagado == InitArranque /\ [][NextApagado]_vars

\* The session at rest, for the specifications of the other components.
SesionEnReposo ==
  /\ backend = Vacio
  /\ AgPoner(AgInicial)
  /\ token = FALSE
  /\ configPollIntervalId = FALSE
  /\ ultimaConfigHash = HashNulo
  /\ ultimosRegistradoresIds = {}
  /\ ultimosRegistradoresActivos = MapaActivos(Vacio)
  /\ solicitudes = EmptyBag
  /\ ultimoPoll = SinPoll
  /\ huboFetch = FALSE
  /\ salio = FALSE
  /\ conexion = ConexionInicial

\* The connection tests: deliveries of pending tests and their executions.
Pruebas(A) == A /\ UNCHANGED <<sesionVars, mbVars, relojVars, lecVars>>

NextTest ==
  \/ \E id \in TestIds : Pruebas(EjecutarTestConexion(id))
  \/ \E e \in ejecuciones, res \in ResultadosTest : Pruebas(TestResuelve(e, res))
  \/ \E e \in ejecuciones : Pruebas(ReporteTryResuelve(e))
  \/ \E e \in ejecuciones : Pruebas(ReporteTryRechaza(e))
  \/ \E e \in ejecuciones : Pruebas(ReporteCatchTermina(e))
  \/ Pruebas(CerrarConexionTest)

InitTest == SesionEnReposo /\ RestoEnReposo

SpecTest == InitTest /\ [][NextTest]_vars

\* Every await of an execution settles: the promises of testConexionModbus
\* and of reportarResultadoTest resolve or reject.
EjecucionAvanza(id) ==
  \E e \in EjecucionesDe(id) :
    \/ \E res \in ResultadosTest : Pruebas(TestResuelve(e, res))
    \/ Pruebas(ReporteTryResuelve(e))
    \/ Pruebas(ReporteTryRechaza(e))
    \/ Pruebas(ReporteCatchTermina(e))

SpecTestFair == SpecTest /\ \A id \in TestIds : WF_vars(EjecucionAvanza(id))

\* The Modbus client: invocations of the two executors, one at a time.
Modbus(A) == A /\ UNCHANGED <<sesionVars, testVars, relojVars, lecVars>>

NextModbus ==
  \/ Modbus(MbLlamar)
  \/ Modbus(MbDemora)
  \/ Modbus(MbConecta)
  \/ Modbus(MbConexionFalla)
  \/ Modbus(MbLee)
  \/ Modbus(MbFinally)
  \/ Modbus(MbRetorna)

InitModbus ==
  /\ SesionEnReposo /\ TestEnReposo /\ RelojEnReposo /\ LecturaEnReposo
  /\ MbEnReposo({"simulado", "real"})

SpecModbus == InitModbus /\ [][NextModbus]_vars

\* The variables of the session that a read does not touch.
sesionSinToken == <<backend, agVars, configPollIntervalId, ultimaConfigHash,
                    ultimosRegistradoresIds, ultimosRegistradoresActivos,
                    conexion, solicitudes, ultimoPoll, huboFetch, salio>>

\* A step of a call of leerRegistrador.
Lectura(A) == A /\ UNCHANGED <<sesionSinToken, testVars, relojVars>>

NextLectura ==
  \/ Lectura(LeerRegistradorLlama)
  \/ Lectura(MbConecta /\ UNCHANGED <<lecVars, token>>)
  \/ Lectura(MbConexionFalla /\ UNCHANGED <<lecVars, token>>)
  \/ Lectura(MbLee /\ UNCHANGED <<lecVars, token>>)
  \/ Lectura(MbFinally /\ UNCHANGED <<lecVars, token>>)
  \/ Lectura(LeerRegistradorTrasModbus)
  \/ Lectura(EnvioResuelve)
  \/ Lectura(EnvioRechaza)
  \/ Lectura(EnvioCatchTermina)
  \/ Lectura(CambiaToken)

\* An authenticated session with no read in progress, in either mode.
InitLectura ==
  /\ backend = Vacio
  /\ AgPoner(AgInicial)
  /\ token = TRUE
  /\ configPollIntervalId = TRUE
  /\ ultimaConfigHash = HashNulo
  /\ ultimosRegistradoresIds = {}
  /\ ultimosRegistradoresActivos = MapaActivos(Vacio)
  /\ solicitudes = EmptyBag
  /\ ultimoPoll = SinPoll
  /\ huboFetch = FALSE
  /\ salio = FALSE
  /\ conexion = ConexionIniciada
  /\ TestEnReposo /\ RelojEnReposo /\ LecturaEnReposo
  /\ MbEnReposo({"simulado", "real"})

SpecLectura == InitLectura /\ [][NextLectura]_vars

\* ------------------------------------------------------------------------
\* The timers against the clock: a loaded registry that does not change
\* ------------------------------------------------------------------------

\* Seconds of the clock that are observed.
MaxReloj == 12

\* The registries of the timed runs: r1 active with an interval of 5 seconds,
\* r2 absent, inactive, or active with an interval of 3 seconds.
RegistrosReloj ==
  {b \in [Ids -> [presente : BOOLEAN, activo : BOOLEAN, intervalo : {0, 3, 5},
                  nombre : {"", "A"}]] :
     /\ b["r1"] = [presente |-> TRUE, activo |-> TRUE, intervalo |-> 5,
                   nombre |-> "A"]
     /\ \/ b["r2"] = Ausente
        \/ b["r2"].presente /\ b["r2"].intervalo = 3 /\ b["r2"].nombre = "A"}

\* The session right after onAutenticado loaded registry b: iniciarPolling
\* has created the timers, each with its period ahead, and started the first
\* reads.
InitReloj ==
  /\ \E b \in RegistrosReloj :
       /\ backend = b
       /\ AgPoner(AgTrasCargaInicial(b))
       /\ ultimaConfigHash = Hash(b)
       /\ ultimosRegistradoresIds = IdsDe(b)
       /\ ultimosRegistradoresActivos = MapaActivos(b)
       /\ vence = [i \in Ids |-> IF i \in Activos(b) THEN b[i].intervalo
                                 ELSE SinValor]
       /\ lecturas = AgTrasCargaInicial(b).enVuelo
  /\ token = TRUE
  /\ configPollIntervalId = TRUE
  /\ solicitudes = EmptyBag
  /\ ultimoPoll = [tipo |-> "carga", razon |-> ""]
  /\ huboFetch = TRUE
  /\ salio = FALSE
  /\ conexion = ConexionIniciada
  /\ reloj = 0
  /\ ticPendiente = FALSE
  /\ TestEnReposo /\ MbEnReposo({"simulado"}) /\ LecturaEnReposo

\* A second passes once the callbacks that were due have run: every timer is
\* a second nearer to its firing and the ticker, when it runs, is due.
PasaSegundo ==
  /\ reloj < MaxReloj
  /\ ~ticPendiente
  /\ \A i \in Ids : vence[i] # 0
  /\ reloj' = reloj + 1
  /\ vence' = [i \in Ids |-> IF vence[i] > 0 THEN vence[i] - 1 ELSE vence[i]]
  /\ ticPendiente' = contadorIntervalId
  /\ UNCHANGED <<sesionVars, lecturas>>

\* The callback of the shared ticker (asegurarContadorGlobal, lines 276-284):
\* every countdown above 0 loses a second, in the map and in the row.
RECURSIVE TicFilas(_, _, _)
TicFilas(u, cont, orden) ==
  IF orden = <<>> THEN u
  ELSE LET id == Head(orden)
           u1 == IF cont[id] > 0 THEN ActualizarProxima(u, id, cont[id] - 1) ELSE u
       IN TicFilas(u1, cont, Tail(orden))

TicContador ==
  /\ ticPendiente
  /\ ticPendiente' = FALSE
  /\ contadoresProxLectura' =
       [i \in Ids |-> IF contadoresProxLectura[i] > 0
                        THEN contadoresProxLectura[i] - 1
                        ELSE contadoresProxLectura[i]]
  /\ ui' = TicFilas(ui, contadoresProxLectura, Orden)
  /\ UNCHANGED <<backend, registradoresCache, cicloActivo, intervalosLectura,
                 contadorIntervalId, tickers, timers, enVuelo, detenido,
                 restVars,
                 solicitudes, ultimoPoll, huboFetch, salio>>
  /\ UNCHANGED <<reloj, vence, lecturas>>

\* The period of a timer has elapsed: its callback runs and the timer is
\* armed again with the period it was created with.
TimerVence ==
  \E t \in timers :
    /\ vence[t.id] = 0
    /\ LET corre == /\ cicloActivo
                    /\ t.tipo = "registrador" => t.id \in Activos(registradoresCache)
           a1 == IF ~corre THEN AgActual
                 ELSE IF t.tipo = "inicial" THEN DispararInicial(AgActual, t)
                 ELSE DispararRegistrador(AgActual, t)
       IN /\ AgAsignar(a1)
          /\ lecturas' = [lecturas EXCEPT
                            ![t.id] = @ + (a1.enVuelo[t.id] - enVuelo[t.id])]
    /\ vence' = [vence EXCEPT ![t.id] = IntervaloEfectivo(t.reg)]
    /\ UNCHANGED <<backend, restVars, solicitudes, ultimoPoll, huboFetch, salio>>
    /\ UNCHANGED <<reloj, ticPendiente>>

\* A step of the timed run.
Reloj(A) == A /\ UNCHANGED <<testVars, mbVars, lecVars>>

NextReloj ==
  \/ Reloj(PasaSegundo)
  \/ Reloj(TicContador)
  \/ Reloj(TimerVence)
  \/ Reloj(LecturaTermina /\ UNCHANGED relojVars)

SpecReloj == InitReloj /\ [][NextReloj]_vars

\* ------------------------------------------------------------------------
\* The ticker in a session whose configuration changes
\* ------------------------------------------------------------------------

\* Ticks of the shared ticker that are observed.
MaxTics == 1

\* A second of the ticker's interval (setInterval(..., 1000), line 276)
\* elapses while the ticker runs: its callback is due.
SegundoDelTicker ==
  /\ contadorIntervalId
  /\ ~ticPendiente
  /\ reloj < MaxTics
  /\ reloj' = reloj + 1
  /\ ticPendiente' = TRUE
  /\ UNCHANGED <<sesionVars, vence, lecturas>>

NextTic ==
  \/ Sesion(EditarBackend(IdsArranque, RegsArranque))
  \/ Sesion(IniciarConexion(CotasArranque))
  \/ Sesion(PollEmitir(CotasArranque))
  \/ Sesion(PollEntrega(CotasArranque))
  \/ Sesion(PollFalla)
  \/ Sesion(CargaEntrega(CotasArranque))
  \/ Sesion(CargaFalla(CotasArranque))
  \/ Sesion(TimerDispara(CotasArranque))
  \/ Sesion(LecturaTermina)
  \/ Reloj(SegundoDelTicker)
  \/ Reloj(TicContador)

SpecTic == InitArranque /\ [][NextTic]_vars

\* ------------------------------------------------------------------------
\* Properties of the diff engine
\* ------------------------------------------------------------------------

\* The step processes the config poll that carries snap.
ProcesaPoll(snap) ==
  \E q \in BagToSet(solicitudes) :
    /\ q.tipo = "poll" /\ q.snap = snap
    /\ solicitudes' = Retirar(q)
    /\ huboFetch'

\* The stored baseline is that of snapshot b.
BaseEs(b) ==
  /\ ultimaConfigHash = Hash(b)
  /\ ultimosRegistradoresIds = IdsDe(b)
  /\ ultimosRegistradoresActivos = MapaActivos(b)

UnActivo60 ==
  {b \in Snapshots : IdsDe(b) = {"r1"} /\ b["r1"].activo /\ b["r1"].intervalo = 60}

\* C2: against a baseline of one active device of interval 60, a poll whose
\* snapshot only changes the interval to 30 is classified as a minor change
\* and restarts nothing; one that only clears the active flag is structural
\* with reason 'registrador desactivado'; one that adds a second device is
\* structural with reason 'nuevo registrador agregado'.
C2_DiffClassification ==
  [][\A b \in UnActivo60, n \in Snapshots :
       (BaseEs(b) /\ ProcesaPoll(n)) =>
         /\ n = [b EXCEPT !["r1"].intervalo = 30] =>
              /\ ultimoPoll' = [tipo |-> "menor",
                                razon |-> "cambio de configuracion menor"]
              /\ timers' = timers
              /\ intervalosLectura' = intervalosLectura
         /\ n = [b EXCEPT !["r1"].activo = FALSE] =>
              ultimoPoll' = [tipo |-> "estructural",
                             razon |-> "registrador desactivado"]
         /\ (n["r1"] = b["r1"] /\ n["r2"].presente) =>
              ultimoPoll' = [tipo |-> "estructural",
                             razon |-> "nuevo registrador agregado"]]_vars

\* The poll that only changed the interval of the one active device from 60
\* to 30 has been classified: minor, the cache and the timer as they were.
C2_Witness ==
  /\ ultimoPoll = [tipo |-> "menor", razon |-> "cambio de configuracion menor"]
  /\ solicitudes = EmptyBag
  /\ IdsDe(registradoresCache) = {"r1"}
  /\ registradoresCache["r1"].activo /\ registradoresCache["r1"].intervalo = 60
  /\ backend = [registradoresCache EXCEPT !["r1"].intervalo = 30]
  /\ intervalosLectura["r1"] # 0

\* The ids a snapshot adds to, removes from and toggles in the baseline.
Agregados(snap) == IdsDe(snap) \ ultimosRegistradoresIds

Eliminados(snap) == ultimosRegistradoresIds \ IdsDe(snap)

Conmutados(snap) ==
  {i \in IdsDe(snap) \cap ultimosRegistradoresIds :
     ultimosRegistradoresActivos[i] # (IF snap[i].activo THEN "true" ELSE "false")}

\* C3: whenever a poll finds a changed hash, the reason it reports is that of
\* the first rule that matches, in the order added, removed, active flag
\* toggled, minor: added and removed together give 'nuevo registrador
\* agregado', removed and toggled together give 'registrador eliminado'.
C3_FirstMatchWins ==
  [][\A n \in Snapshots :
       (ProcesaPoll(n) /\ ~ultimaConfigHash.nulo /\ ultimaConfigHash # Hash(n)) =>
         /\ Agregados(n) # {} =>
              ultimoPoll'.razon = "nuevo registrador agregado"
         /\ (Agregados(n) = {} /\ Eliminados(n) # {}) =>
              ultimoPoll'.razon = "registrador eliminado"
         /\ (Agregados(n) = {} /\ Eliminados(n) = {} /\ Conmutados(n) # {}) =>
              ultimoPoll'.razon \in {"registrador activado", "registrador desactivado"}
         /\ (Agregados(n) = {} /\ Eliminados(n) = {} /\ Conmutados(n) = {}) =>
              ultimoPoll'.razon = "cambio de configuracion menor"
         /\ ultimoPoll'.tipo = (IF Agregados(n) \cup Eliminados(n) \cup Conmutados(n) # {}
                                  THEN "estructural" ELSE "menor")]_vars

\* A poll whose snapshot dropped the polled device r1 and brought r2 has been
\* classified as an addition.
C3_Witness ==
  /\ ultimoPoll = [tipo |-> "estructural", razon |-> "nuevo registrador agregado"]
  /\ solicitudes = EmptyBag
  /\ detenido["r1"]
  /\ IdsDe(registradoresCache) = {"r2"}
  /\ ultimosRegistradoresIds = {"r2"}

\* ------------------------------------------------------------------------
\* Properties of the start of a session
\* ------------------------------------------------------------------------

\* C4: the first config fetch of a session that succeeds, made by the initial
\* load or by a config poll while no hash is stored, is never classified as a
\* structural or a minor change, and it leaves a hash stored; when a poll
\* makes it, the scheduler's state is untouched.
C4_FirstFetchSeedsOnly ==
  [][(~huboFetch /\ huboFetch') =>
       /\ ultimoPoll'.tipo \in {"base", "carga"}
       /\ ~ultimaConfigHash'.nulo
       /\ ultimoPoll'.tipo = "base" => UNCHANGED agVars]_vars

\* The first fetch was that of a config poll and carried an active device:
\* the hash is stored, no device is known and no timer runs.
C4_Witness ==
  /\ huboFetch
  /\ ultimoPoll.tipo = "base"
  /\ ultimaConfigHash = [nulo |-> FALSE,
                         h |-> [HashConfiguracion(Vacio) EXCEPT
                                  !["r1"] = <<"reg", TRUE, 60>>]]
  /\ registradoresCache = Vacio
  /\ timers = {}

\* ------------------------------------------------------------------------
\* Properties of the connection tests
\* ------------------------------------------------------------------------

\* C5: a delivery of a test id that has an execution in progress changes
\* neither the in-flight set nor the executions, calls testConexionModbus no
\* further time and reports nothing; a delivery of an id without one makes
\* one call.
C5_DuplicateSuppressed ==
  [][\A id \in TestIds :
       entregas'[id] # entregas[id] =>
         IF EjecucionesDe(id) # {}
           THEN UNCHANGED <<testsEnProceso, ejecuciones, invocaciones, terminadas>>
           ELSE invocaciones'[id] = invocaciones[id] + 1]_vars

\* t1 was delivered twice while its first execution runs: one call of the
\* executor.
C5_Witness ==
  /\ entregas["t1"] = 2
  /\ invocaciones["t1"] = 1
  /\ EjecucionesDe("t1") # {}
  /\ \A f \in terminadas : f.id # "t1"

\* C6: every finished execution of a test called reportarResultadoTest
\* exactly once.
C6_ReportedOnce == \A f \in terminadas : Len(f.informes) = 1

\* C7: the in-flight set is empty whenever no execution is in progress, and
\* every id in the set leaves it, given that the awaited calls settle.
C7_MarkerReleased ==
  /\ [](ejecuciones = {} => testsEnProceso = {})
  /\ \A id \in TestIds : (id \in testsEnProceso) ~> (id \notin testsEnProceso)

\* The execution of t1 whose report was rejected in the try block and made
\* again in the catch block has finished, and t1 is out of the set.
C7_Witness ==
  /\ "t1" \notin testsEnProceso
  /\ \E f \in terminadas :
       f.id = "t1" /\ f.resultado = "fallo" /\ Len(f.informes) = 2

\* ------------------------------------------------------------------------
\* Properties of the Modbus client
\* ------------------------------------------------------------------------

CargaEnCurso ==
  \E q \in BagToSet(solicitudes) : q.tipo \in {"inicial", "recarga"}

\* C1: while the process runs and no load of the registry is under way, a
\* device has an entry in intervalosLectura exactly when the cache holds it
\* as active, and then exactly one live timer, else none.
C1_TimerCardinality ==
  (~salio /\ ~CargaEnCurso) =>
    \A id \in Ids :
      /\ (intervalosLectura[id] # 0) = (id \in Activos(registradoresCache))
      /\ Cardinality(TimersDe(AgActual, id)) =
           (IF id \in Activos(registradoresCache) THEN 1 ELSE 0)

\* C9: once a granular update has stopped the timer of a device, no step
\* starts a read of it while the cache does not hold it as active.
C9_NoReadAfterStop ==
  [][\A id \in Ids :
       (/\ detenido[id]
        /\ id \notin Activos(registradoresCache)
        /\ id \notin Activos(registradoresCache')) =>
         enVuelo'[id] <= enVuelo[id]]_vars

\* C10: while a device whose timer a granular update stopped is held as
\* inactive, its row shows 'inactivo' and no countdown value.
C10_InactiveDisplay ==
  \A id \in Ids :
    (/\ detenido[id]
     /\ registradoresCache[id].presente /\ ~registradoresCache[id].activo
     /\ ui[id].presente) =>
      ui[id].estado = "inactivo" /\ ui[id].proximaLectura = SinValor

\* ------------------------------------------------------------------------
\* Properties of interval changes
\* ------------------------------------------------------------------------

\* Snapshot n differs from the registry c in the interval of active devices
\* and in nothing else.
SoloCambiaIntervalo(c, n) ==
  /\ IdsDe(n) = IdsDe(c)
  /\ \A i \in IdsDe(n) :
       /\ n[i].activo = c[i].activo
       /\ n[i].nombre = c[i].nombre
       /\ n[i].intervalo # c[i].intervalo => c[i].activo
  /\ \E i \in IdsDe(n) : n[i].intervalo # c[i].intervalo

\* C11: a config poll whose snapshot differs from the cached registry only
\* in the interval of active devices leaves the live timers and
\* intervalosLectura as they are and starts no read (every creation of a
\* timer starts one).
C11_IntervalChangeKeepsTimers ==
  [][\A n \in Snapshots :
       (ProcesaPoll(n) /\ SoloCambiaIntervalo(registradoresCache, n)) =>
         /\ timers' = timers
         /\ intervalosLectura' = intervalosLectura
         /\ enVuelo' = enVuelo]_vars

\* The poll that found the interval of the polled device r1 changed from 60
\* to 30 has been processed as a minor change; the timer of r1 lives on.
C11_Witness ==
  /\ ultimoPoll = [tipo |-> "menor", razon |-> "cambio de configuracion menor"]
  /\ registradoresCache["r1"].activo /\ registradoresCache["r1"].intervalo = 60
  /\ backend = [registradoresCache EXCEPT !["r1"].intervalo = 30]
  /\ ultimaConfigHash = Hash(backend)
  /\ intervalosLectura["r1"] = 1
  /\ \E t \in timers : t.id = "r1" /\ t.h = 1

\* The callback of a live timer of the device starts a read: a firing.
Disparo(id) ==
  /\ enVuelo'[id] = enVuelo[id] + 1
  /\ timers' = timers
  /\ registradoresCache' = registradoresCache

\* C12: once a config poll has fetched a changed interval of an active
\* device as a minor change, every firing of that device resets its
\* countdown, in the map and in its row, to the interval the backend holds.
C12_NewIntervalAtNextFiring ==
  [][\A id \in Ids :
       (/\ Disparo(id)
        /\ ultimoPoll.tipo = "menor"
        /\ ultimaConfigHash = Hash(backend)
        /\ id \in Activos(backend)) =>
         /\ contadoresProxLectura'[id] = backend[id].intervalo
         /\ ui'[id].proximaLectura = backend[id].intervalo]_vars

\* ------------------------------------------------------------------------
\* Cadence of the reads against the clock
\* ------------------------------------------------------------------------

\* Reads that device id has started when its timers of period p have fired
\* on time: the immediate one and one per elapsed period.
LecturasDebidas(id, p) ==
  1 + (reloj \div p) - (IF vence[id] = 0 THEN 1 ELSE 0)

\* A read of the device starts in this step.
EmpiezaLectura(id) == lecturas'[id] = lecturas[id] + 1

\* The reads of r1 counted against the clock, 3 of them at second 12.
CadenciaR1 ==
  /\ lecturas["r1"] = LecturasDebidas("r1", 5)
  /\ reloj = 12 => lecturas["r1"] = 3

\* C13: one active device with an interval of 5 seconds and no change of
\* configuration is read on the interval: the immediate read plus one per
\* firing, so exactly 3 reads have been started when 12 seconds have passed,
\* and every firing puts the countdown of the device back to the interval.
C13_ReadsOnInterval ==
  /\ []CadenciaR1
  /\ [][EmpiezaLectura("r1") =>
          /\ contadoresProxLectura'["r1"] = 5
          /\ ui'["r1"].proximaLectura = 5]_vars

C13_Witness ==
  /\ reloj = 12
  /\ lecturas["r1"] = 3
  /\ backend["r2"] = Ausente
  /\ contadoresProxLectura["r1"] = 3

\* A read of device id ends in failure in this step.
LecturaFalla(id) ==
  /\ enVuelo'[id] = enVuelo[id] - 1
  /\ ui'[id].estado = "error"

\* Every active device has its timer and has been read once at the load and
\* once per elapsed period, whatever the outcome of the reads.
CadenciaDeTodos ==
  \A id \in Activos(registradoresCache) :
    /\ \E t \in timers : t.id = id /\ intervalosLectura[id] = t.h
    /\ lecturas[id] = LecturasDebidas(id, registradoresCache[id].intervalo)

\* C14: a failed read leaves the timer and the countdown of the device in
\* place and stops no timer of any device; the device is read again when its
\* interval next fires and not before.
C14_FailedReadKeepsSchedule ==
  /\ []CadenciaDeTodos
  /\ [][\A id \in Ids : LecturaFalla(id) =>
          UNCHANGED <<timers, intervalosLectura, contadoresProxLectura,
                      contadorIntervalId, cicloActivo, vence, lecturas>>]_vars

C14_Witness ==
  /\ ui["r1"].estado = "error"
  /\ enVuelo["r1"] = 0
  /\ lecturas["r1"] = 1
  /\ reloj = 4
  /\ vence["r1"] = 1
  /\ "r2" \in Activos(registradoresCache)
  /\ \E t \in timers : t.id = "r1"

\* ------------------------------------------------------------------------
\* The descriptor a firing uses
\* ------------------------------------------------------------------------

\* C15: whenever the timer of a device fires, whether iniciarPolling or
\* iniciarPollingRegistrador created it, the read and the reset of the
\* countdown use the descriptor of the device that the registry holds now,
\* not the one captured when the timer was created.
C15_FiringUsesStoredDescriptor ==
  [][\A id \in Ids :
       (Disparo(id) /\ id \in Activos(registradoresCache)) =>
         /\ contadoresProxLectura'[id] = IntervaloEfectivo(registradoresCache[id])
         /\ ui'[id].proximaLectura = IntervaloEfectivo(registradoresCache[id])]_vars

\* ------------------------------------------------------------------------
\* Changes that touch no id and no active flag
\* ------------------------------------------------------------------------

\* C16: when a config poll classifies the snapshot it fetched as a minor
\* change (some interval differs, no id and no active flag does), the
\* registry holds the new descriptors afterwards and no timer is restarted.
C16_MinorChangeStored ==
  [][\A n \in Snapshots :
       (ProcesaPoll(n) /\ ultimoPoll'.tipo = "menor") =>
         /\ \A i \in IdsDe(n) :
              /\ registradoresCache'[i].presente
              /\ registradoresCache'[i].intervalo = n[i].intervalo
         /\ timers' = timers]_vars

\* Snapshot n has the devices of c with the same flags and intervals, and
\* some device under another name.
SoloCambiaNombre(c, n) ==
  /\ IdsDe(n) = IdsDe(c)
  /\ \A i \in IdsDe(n) : /\ n[i].activo = c[i].activo
                         /\ n[i].intervalo = c[i].intervalo
  /\ \E i \in IdsDe(n) : n[i].nombre # c[i].nombre

\* C17: a poll classifies the snapshot it fetched as no change only when the
\* snapshot equals the previous one in every field; a snapshot that differs
\* only in the name of a device is classified as a minor change.
C17_NoneOnlyWhenIdentical ==
  [][\A n \in Snapshots :
       (ProcesaPoll(n) /\ BaseEs(registradoresCache)) =>
         /\ ultimoPoll'.tipo = "ninguno" => n = registradoresCache
         /\ SoloCambiaNombre(registradoresCache, n) => ultimoPoll'.tipo = "menor"]_vars

\* ------------------------------------------------------------------------
\* The baseline after a poll
\* ------------------------------------------------------------------------

\* A config poll handles snapshot n in this step: its fetch returned n and
\* pollConfiguracion reached the assignment of the hash (line 333).
PollManejado(n) == ProcesaPoll(n) /\ ultimaConfigHash' = Hash(n)

\* C18: every change is processed once: when a config poll has handled the
\* snapshot it fetched, the stored id set and active-flag map are, like the
\* stored hash, those of that snapshot, so that a poll which fetches the same
\* snapshot again finds no change, also when the fetches of two polls
\* overlap.
C18_BaselineFollowsPoll ==
  [][\A n \in Snapshots :
       PollManejado(n) =>
         /\ ultimosRegistradoresIds' = IdsDe(n)
         /\ ultimosRegistradoresActivos' = MapaActivos(n)
         /\ Clasificar(ultimaConfigHash', ultimosRegistradoresIds',
                       ultimosRegistradoresActivos', n).tipo = "ninguno"]_vars

\* ------------------------------------------------------------------------
\* Reads that end after their device was stopped
\* ------------------------------------------------------------------------

\* A read of device id ends in this step.
LecturaLlega(id) == enVuelo'[id] = enVuelo[id] - 1

\* C19: when the read of a device ends after a granular update stopped its
\* timer (the device was removed or deactivated), the result is dropped: the
\* row of the device and its countdown stay as the update left them.
C19_LateResultDropped ==
  [][\A id \in Ids :
       (/\ LecturaLlega(id)
        /\ detenido[id]
        /\ id \notin Activos(registradoresCache)) =>
         /\ ui'[id] = ui[id]
         /\ contadoresProxLectura'[id] = contadoresProxLectura[id]]_vars

\* ------------------------------------------------------------------------
\* Shutdown
\* ------------------------------------------------------------------------

\* Nothing is scheduled: no poll timer, no countdown, no ticker, no config
\* poller, no token.
TodoCancelado ==
  /\ timers = {}
  /\ \A i \in Ids : intervalosLectura[i] = 0 /\ contadoresProxLectura[i] = SinValor
  /\ ~contadorIntervalId
  /\ ~cicloActivo
  /\ ~configPollIntervalId
  /\ ~token

\* C20: once the shutdown handler has run, every poll timer and the ticker
\* are cancelled, the maps are empty, cicloActivo is false, the timers of the
\* transport are cancelled and the token is cleared, and from then on no
\* read is started.
C20_ShutdownCancelsAll ==
  /\ [](salio => TodoCancelado)
  /\ [][salio => \A id \in Ids : enVuelo'[id] <= enVuelo[id]]_vars

\* ------------------------------------------------------------------------
\* The shared ticker
\* ------------------------------------------------------------------------

\* C21: there is never more than one ticker, however many devices are
\* polled: asegurarContadorGlobal called while the ticker runs creates no
\* second one and leaves the whole state of the agent as it was.
C21_SingleTicker ==
  /\ tickers <= 1
  /\ tickers = (IF contadorIntervalId THEN 1 ELSE 0)
  /\ contadorIntervalId => AsegurarContadorGlobal(AgActual) = AgActual

C21_Witness ==
  /\ tickers = 1
  /\ \E t \in timers : t.id = "r1" /\ t.tipo = "inicial"
  /\ \E t \in timers : t.id = "r2" /\ t.tipo = "registrador"
  /\ intervalosLectura["r1"] # 0 /\ intervalosLectura["r2"] # 0

\* The callback of the ticker runs in this step.
Tic == ticPendiente /\ ~ticPendiente'

\* C22: a tick takes exactly 1 from the countdown of every device that has a
\* live timer and a countdown above 0, takes no countdown below 0, and
\* neither changes nor pushes anything for a device that is inactive or is
\* not in the registry.
C22_TickFrame ==
  [][Tic => \A id \in Ids :
       /\ (intervalosLectura[id] # 0 /\ contadoresProxLectura[id] > 0) =>
            contadoresProxLectura'[id] = contadoresProxLectura[id] - 1
       /\ contadoresProxLectura'[id] >= 0 \/ contadoresProxLectura'[id] = SinValor
       /\ id \notin Activos(registradoresCache) =>
            /\ contadoresProxLectura'[id] = contadoresProxLectura[id]
            /\ ui'[id] = ui[id]]_vars

\* ------------------------------------------------------------------------
\* Independence of the timers of different devices
\* ------------------------------------------------------------------------

\* Device id has been read and none of its reads has ended.
SinTerminar(id) == lecturas[id] >= 1 /\ enVuelo[id] = lecturas[id]

\* The countdown of device id is in step with its timer: once the tick of
\* the second has run it shows the seconds left to the firing, or one less
\* when the firing of this period ran before the tick of its second.
ContadorAlDia(id) ==
  (~ticPendiente /\ vence[id] # 0) =>
    contadoresProxLectura[id] \in {vence[id], vence[id] - 1}

\* C23: while a read of a device is in flight and does not end, every other
\* active device is still read at its own interval and its countdown is
\* still decremented every second: nothing of device B waits for the read
\* of device A.
C23_HungReadBlocksNoOther ==
  \A idA \in Ids : \A idB \in Activos(registradoresCache) \ {idA} :
    SinTerminar(idA) =>
      /\ lecturas[idB] = LecturasDebidas(idB, registradoresCache[idB].intervalo)
      /\ ContadorAlDia(idB)
      /\ \E t \in timers : t.id = idB /\ intervalosLectura[idB] = t.h
      /\ cicloActivo /\ contadorIntervalId

C23_Witness ==
  /\ SinTerminar("r1")
  /\ reloj = 12
  /\ enVuelo["r1"] = 3
  /\ lecturas["r2"] = 5
  /\ contadoresProxLectura["r2"] = 3

\* ------------------------------------------------------------------------
\* Tests of different ids
\* ------------------------------------------------------------------------

\* A request for test id is delivered in this step.
LlegaTest(id) == entregas'[id] = entregas[id] + 1

DescriptorInvalido(a) == a.ip = "" \/ a.puerto <= 0 \/ a.cantidad <= 0

\* C25: an executor called with an invalid descriptor (missing ip, port <= 0
\* or register count <= 0) returns a failure at once: it creates no client,
\* attempts no connection and returns no values.
C25_InvalidFailsFast ==
  (mbPc # "libre" /\ DescriptorInvalido(mbArgs)) =>
    /\ mbPc = "retornado"
    /\ mbResultado = "fallo"
    /\ ~clienteCreado
    /\ intentosConexion = 0

\* ------------------------------------------------------------------------
\* What a read reports upstream
\* ------------------------------------------------------------------------

\* C26: a call of leerRegistrador calls enviarLecturas at most once: when
\* the upstream call fails the failure is logged and no second report is
\* made for that read.
C26_AtMostOneReport == Len(lecInformes) <= 1

\* C30: a record sent upstream carries exito = true exactly when the Modbus
\* read of that call returned values; a read that succeeded on the device is
\* never reported as failed, also when the first upstream call fails.
C30_ReportMatchesRead ==
  \A k \in 1..Len(lecInformes) :
    lecInformes[k].enviado => lecInformes[k].exito = lecValores

\* C29: after a failed read of a device that stays in the registry, the row
\* of the device shows 'error' until its next read starts: no step that
\* neither starts nor ends a read of the device takes the 'error' away.
\* (The failed-reading record of the read is the catch block's call of
\* enviarLecturas, and leerRegistrador resolves on every path.)
C29_ErrorShownUntilNextRead ==
  [][\A id \in Ids :
       (/\ ui[id].estado = "error"
        /\ id \in Activos(registradoresCache)
        /\ id \in Activos(registradoresCache')
        /\ enVuelo'[id] = enVuelo[id]) =>
         ui'[id].estado = "error"]_vars

\* ------------------------------------------------------------------------
\* What a test reports upstream
\* ------------------------------------------------------------------------

\* The success flag a report of an execution must carry: true exactly when
\* testConexionModbus returned exito true.
InformeDebido(resultado) == IF resultado = "exito" THEN "exito" ELSE "fallo"

\* C27: the outcome reported for a test carries the success flag of the test
\* executor's result: success when testConexionModbus returned success,
\* failure when it returned a failure or threw.
C27_ReportMatchesTest ==
  \A d \in terminadas \cup {e \in ejecuciones : e.pc # "test"} :
    /\ d.informes # <<>>
    /\ \A k \in 1..Len(d.informes) : d.informes[k] = InformeDebido(d.resultado)

\* ------------------------------------------------------------------------
\* The session whose authentication may fail
\* ------------------------------------------------------------------------

\* A whole session in which autenticar() may return false.
NextAuth ==
  \/ Sesion(EditarBackend(IdsSesion, RegsSesion))
  \/ Sesion(IniciarConexion(CotasAuth))
  \/ Sesion(IniciarConexionFalla)
  \/ Sesion(PollEmitir(CotasAuth))
  \/ Sesion(PollEntrega(CotasAuth))
  \/ Sesion(PollFalla)
  \/ Sesion(CargaEntrega(CotasAuth))
  \/ Sesion(CargaFalla(CotasAuth))
  \/ Sesion(Recargar(CotasAuth))
  \/ Sesion(TimerDispara(CotasAuth))
  \/ Sesion(LecturaTermina)
  \/ Sesion(Salir)

SpecAuth == Init /\ [][NextAuth]_vars

\* The same session when iniciarConexion may be called again.
NextIntervalos ==
  \/ Sesion(EditarBackend(IdsSesion, RegsSesion))
  \/ Sesion(IniciarConexion(CotasAuth))
  \/ Sesion(IniciarConexionFalla)
  \/ Sesion(ReiniciarConexion(CotasAuth))
  \/ Sesion(PollEmitir(CotasAuth))
  \/ Sesion(PollEntrega(CotasAuth))
  \/ Sesion(PollFalla)
  \/ Sesion(CargaEntrega(CotasAuth))
  \/ Sesion(CargaFalla(CotasAuth))
  \/ Sesion(TimerDispara(CotasAuth))
  \/ Sesion(LecturaTermina)
  \/ Sesion(Salir)

SpecIntervalos == Init /\ [][NextIntervalos]_vars

\* C28: once iniciarConexion has ended with a failed authentication, the
\* error callback has been invoked once, onAutenticado has never been
\* invoked, restService holds no heartbeat, config-poll or test-poll
\* interval, no device has a poll timer, no read is in flight and no
\* registry fetch was ever issued; a manual reload does not change this.
C28_FailedAuthStartsNothing ==
  conexion.pc = "fallida" =>
    /\ conexion.onError = 1
    /\ conexion.onAutenticado = 0
    /\ ~token
    /\ ~conexion.heartbeatIntervalId
    /\ ~configPollIntervalId
    /\ ~conexion.testsPollIntervalId
    /\ timers = {}
    /\ \A i \in Ids : intervalosLectura[i] = 0 /\ enVuelo[i] = 0
    /\ solicitudes = EmptyBag
    /\ ~huboFetch
    /\ ~cicloActivo

\* The authentication failed while the backend holds an active device.
C28_Witness ==
  /\ conexion.pc = "fallida"
  /\ conexion.onError = 1
  /\ \E i \in Ids : backend[i].presente /\ backend[i].activo

\* ------------------------------------------------------------------------
\* Properties of the granular update
\* ------------------------------------------------------------------------

\* The timer collection matches the registry: a device has an entry in the
\* handle map exactly when the registry holds it as active, and its live
\* timers are that entry and nothing else.
TimersConcuerdan(cache, intervalos, vivos) ==
  \A id \in Ids :
    /\ (intervalos[id] # 0) = (id \in Activos(cache))
    /\ \A t \in vivos : t.id = id => t.h = intervalos[id]
    /\ Cardinality({t \in vivos : t.id = id}) =
         (IF id \in Activos(cache) THEN 1 ELSE 0)

\* The poll that carries n is handled as a structural change: the step runs
\* actualizarRegistradoresGranular(n).
GranularAplica(n) ==
  /\ PollManejado(n)
  /\ Clasificar(ultimaConfigHash, ultimosRegistradoresIds,
                ultimosRegistradoresActivos, n).tipo = "estructural"

\* C31: when the timer collection matches the active devices of the known
\* registry, a granular update with snapshot n leaves the registry equal to
\* n and the timer collection matching the active devices of n, and the
\* timer of a device whose id and active flag did not change is the same
\* timer as before.
C31_GranularReconciles ==
  [][\A n \in Snapshots :
       (GranularAplica(n)
          /\ TimersConcuerdan(registradoresCache, intervalosLectura, timers)) =>
         /\ registradoresCache' = n
         /\ TimersConcuerdan(n, intervalosLectura', timers')
         /\ \A id \in IdsDe(registradoresCache) \cap IdsDe(n) :
              registradoresCache[id].activo = n[id].activo =>
                /\ intervalosLectura'[id] = intervalosLectura[id]
                /\ {t \in timers' : t.id = id} = {t \in timers : t.id = id}]_vars

\* A granular update has removed r1, which was polled, and added r2 as an
\* active device: r2 has the only timer.
C31_Witness ==
  /\ ultimoPoll.tipo = "estructural"
  /\ IdsDe(registradoresCache) = {"r2"}
  /\ registradoresCache["r2"].activo
  /\ detenido["r1"]
  /\ TimersConcuerdan(registradoresCache, intervalosLectura, timers)
  /\ \E t \in timers : t.id = "r2" /\ t.tipo = "registrador"

\* C32: from any state of the scheduler, applying a snapshot with
\* actualizarRegistradoresGranular and applying the same snapshot again
\* leaves, after the second application, the live timers, the handle map,
\* the countdowns and the reads in flight as the first left them, and the
\* registry equal to the snapshot.
C32_GranularIdempotent ==
  \A n \in Snapshots :
    LET a1 == ActualizarRegistradoresGranular(AgActual, n)
        a2 == ActualizarRegistradoresGranular(a1, n)
    IN /\ a2.timers = a1.timers
       /\ a2.intervalos = a1.intervalos
       /\ a2.contadores = a1.contadores
       /\ a2.enVuelo = a1.enVuelo
       /\ a2.cache = n

\* A granular update has just started the timer of r2 and stopped that of
\* r1: the registry is the snapshot a second application would receive.
C32_Witness ==
  /\ ultimoPoll.tipo = "estructural"
  /\ registradoresCache = backend
  /\ detenido["r1"]
  /\ registradoresCache["r2"].presente /\ registradoresCache["r2"].activo
  /\ intervalosLectura["r2"] # 0
  /\ enVuelo["r2"] > 0

\* ------------------------------------------------------------------------
\* Properties of the manual reload
\* ------------------------------------------------------------------------

\* The step ends a manual reload: the fetch of its cargarRegistradores()
\* resolves or fails and iniciarPolling() runs.
RecargaTermina ==
  \E q \in BagToSet(solicitudes) :
    /\ q.tipo = "recarga"
    /\ solicitudes' = Retirar(q)

\* C33: when a manual reload has finished, every active device of the
\* registry has an entry in the handle map and exactly one live timer.
C33_ReloadLeavesConsistent ==
  [][RecargaTermina =>
       \A id \in Activos(registradoresCache') :
         /\ intervalosLectura'[id] # 0
         /\ Cardinality({t \in timers' : t.id = id}) = 1]_vars

\* ------------------------------------------------------------------------
\* Properties of the reads of one device
\* ------------------------------------------------------------------------

\* C34: at any time at most one read of a device is in flight.
C34_ReadsSequential == \A id \in Ids : enVuelo[id] <= 1

\* ------------------------------------------------------------------------
\* Properties of the disconnection
\* ------------------------------------------------------------------------

\* The session was started and the transport has reported the backend
\* unreachable.
Desconectada == conexion.pc = "iniciada" /\ ~conexion.conectado /\ ~salio

\* C35: while the session is disconnected, no device has a poll timer, the
\* handle map and the countdown collection are empty, and no step starts a
\* read.
C35_DisconnectStopsPolling ==
  /\ [](Desconectada =>
          /\ timers = {}
          /\ \A id \in Ids : intervalosLectura[id] = 0
          /\ \A id \in Ids : contadoresProxLectura[id] = SinValor)
  /\ [][Desconectada => \A id \in Ids : enVuelo'[id] <= enVuelo[id]]_vars

\* ------------------------------------------------------------------------
\* Properties of the session after a failed initial load
\* ------------------------------------------------------------------------

\* The registries the backend may hold in that session.
RegistrosCargaFallida ==
  {b \in Snapshots : /\ \A i \in IdsArranque : b[i] \in RegsArranque \cup {Ausente}
                     /\ \A i \in Ids \ IdsArranque : b[i] = Ausente}

\* C36: after a failed initial load, while the config polls succeed, if the
\* backend's registry stays b from some moment on, every device that b holds
\* as active eventually has a poll timer (whose creation starts its first
\* read).
C36_PollsRecoverFailedLoad ==
  \A b \in RegistrosCargaFallida : \A id \in Activos(b) :
    <>[](backend = b) => <>(intervalosLectura[id] # 0)

\* ------------------------------------------------------------------------
\* Properties of the in-flight set of the connection tests
\* ------------------------------------------------------------------------

\* The step delivers the pending test id to ejecutarTestConexion.
EntregaTest(id) == entregas'[id] = entregas[id] + 1

\* C37: testsEnProceso holds exactly the ids of the executions that have
\* started and not finished, and every finished execution has reported; a
\* test delivered while no execution of its id is in progress, also after an
\* earlier execution of it finished, is marked and executed (once more).
C37_FinishedTestsForgotten ==
  /\ [](/\ testsEnProceso = {e.id : e \in ejecuciones}
        /\ \A d \in terminadas : d.informes # <<>>)
  /\ [][\A id \in TestIds :
         (EntregaTest(id) /\ EjecucionesDe(id) = {}) =>
           /\ invocaciones'[id] = invocaciones[id] + 1
           /\ id \in testsEnProceso'
           /\ \E e \in ejecuciones' : e.id = id /\ e.pc = "test"]_vars

\* Test t1 was executed and reported, was delivered again afterwards and
\* its second execution has finished too.
C37_Witness ==
  /\ invocaciones["t1"] = 2
  /\ EjecucionesDe("t1") = {}
  /\ "t1" \notin testsEnProceso
  /\ \E d \in terminadas : d.id = "t1" /\ d.informes # <<>>

\* ------------------------------------------------------------------------
\* Properties of the countdown collection
\* ------------------------------------------------------------------------

\* C38: a device has a countdown value in contadoresProxLectura exactly
\* when it has a timer handle in intervalosLectura.
C38_CountdownIffHandle ==
  \A id \in Ids :
    (contadoresProxLectura[id] # SinValor) = (intervalosLectura[id] # 0)

\* ------------------------------------------------------------------------
\* Properties of the counters of a device
\* ------------------------------------------------------------------------

\* The step ends a call of leerRegistrador.
LecturaCompleta == lecPc # "libre" /\ lecPc' = "libre"

\* C39: the step that completes a read of the device increments one of the
\* device's two counters by one and leaves the other, no other step changes
\* them, and so their sum equals the number of completed reads.
C39_OneCounterPerRead ==
  /\ [](estadisticasPorRegistrador.exitosas + estadisticasPorRegistrador.fallidas
          = lecCompletadas)
  /\ [][IF LecturaCompleta
          THEN \/ /\ estadisticasPorRegistrador'.exitosas =
                       estadisticasPorRegistrador.exitosas + 1
                  /\ estadisticasPorRegistrador'.fallidas =
                       estadisticasPorRegistrador.fallidas
               \/ /\ estadisticasPorRegistrador'.fallidas =
                       estadisticasPorRegistrador.fallidas + 1
                  /\ estadisticasPorRegistrador'.exitosas =
                       estadisticasPorRegistrador.exitosas
          ELSE estadisticasPorRegistrador' = estadisticasPorRegistrador]_vars

\* Three reads of the device have completed, one counted as successful, one
\* that failed in the Modbus executor and one whose submission was rejected.
C39_Witness ==
  /\ lecPc = "libre"
  /\ lecCompletadas = 3
  /\ estadisticasPorRegistrador = [exitosas |-> 1, fallidas |-> 2]
  /\ lecRetorno = "fallo" /\ lecValores

\* ------------------------------------------------------------------------
\* Properties of the intervals of the REST transport
\* ------------------------------------------------------------------------

\* C40: of the heartbeat, the config poll and the test poll, the live
\* intervals of a kind are the one whose handle restService holds, or none:
\* starting a kind again leaves one, and after detenerIntervalos (the
\* shutdown) none is left.
C40_OneIntervalPerKind ==
  /\ conexion.vivos.heartbeat = (IF conexion.heartbeatIntervalId THEN 1 ELSE 0)
  /\ conexion.vivos.config = (IF configPollIntervalId THEN 1 ELSE 0)
  /\ conexion.vivos.tests = (IF conexion.testsPollIntervalId THEN 1 ELSE 0)
  /\ salio => conexion.vivos = [heartbeat |-> 0, config |-> 0, tests |-> 0]

\* iniciarConexion has started the three intervals twice.
C40_Witness ==
  /\ conexion.onAutenticado = 2
  /\ conexion.heartbeatIntervalId /\ configPollIntervalId
  /\ conexion.testsPollIntervalId
  /\ conexion.vivos = [heartbeat |-> 1, config |-> 1, tests |-> 1]
  /\ ~salio


====
